---- MODULE Spec2Model ----
(***************************************************************************)
(* Route optimisation engine of the travel assistant:                      *)
(*   src/src/agents/route_optimizer_agent.py  (multi-city search, ranking) *)
(*   src/src/agents/route_optimizer_clean.py  (traffic snapshots, cache)   *)
(*                                                                         *)
(* Units.  The source computes with floats; the model computes with exact  *)
(* integers in fixed units:                                                *)
(*   distance_km      metres                                               *)
(*   cost             cents            (round(x, 2) of a dollar amount)    *)
(*   duration_hours   1/100 hour       (round(x, 2) of hours)              *)
(*   carbon_footprint 1/100 kg         (round(x, 2) of kg)                 *)
(*   efficiency_score 1/2400000 point  (common denominator of the three    *)
(*                                      normalised scores)                 *)
(*   time.time()      minutes                                              *)
(***************************************************************************)
EXTENDS Integers, Sequences, FiniteSets, TLC

VARIABLES
    \* ---- optimize_multi_city_route: arguments, locals and return value
    cities,            \* argument: the caller's list of city names
    start_city,        \* argument
    end_city,          \* argument (None when not given)
    optimize_for,      \* preferences['optimize_for']
    pc,                \* "call" before the handler ran, "done" after it
    all_routes,        \* candidates in the order the search built them
    optimized_routes,  \* the same list after _rank_routes sorted it in place
    result,            \* the returned dict
    \* ---- get_real_time_traffic_data: the agent's cache and the clock
    traffic_cache,     \* self.traffic_cache: cache_key -> [data, timestamp]
    now,               \* time.time(), in minutes since the agent was built
    last_call,         \* the latest get_real_time_traffic_data: its arguments,
                       \* its time, and the cache entry its key had before it
    last_result,       \* what that call returned
    written,           \* history: cache_key -> the latest write under it (its
                       \* data, its time and the arguments of the writing call)
    \* ---- get_real_time_traffic_data called by several callers at once
    calls,             \* caller -> where its call stands and what it holds
    \* ---- the other public operations, one call at a time
    op,                \* the operation called
    request,           \* its arguments (result holds what it returned)
    heap               \* the option dicts it built, in the order it built them

searchVars == <<cities, start_city, end_city, optimize_for, all_routes,
                optimized_routes>>
routeVars == <<searchVars, pc, result>>
trafficVars == <<traffic_cache, now, last_call, last_result, written>>
raceVars == <<calls>>
apiVars == <<op, request, heap>>
vars == <<routeVars, trafficVars, raceVars, apiVars>>

-----------------------------------------------------------------------------
(* Bounds of the model *)

\* longest list of cities of a request, and longest list a request repeats
MaxCities == 3
MaxRepeated == 2

\* Python's None
None == "<None>"

\* city names the lists are drawn from: two spellings of one resolvable city,
\* another resolvable city, and a name the coordinate table lacks
Names == {"boston", "Boston", "new york", "atlantis"}

\* values of preferences['optimize_for'] requests are drawn from; the last
\* one is none of the four the code names
Objectives == {"cost", "time", "carbon", "balanced", "cheapest"}

\* start cities and end cities requests are drawn from
StartNames == {"boston", None}
EndNames == {None, "chicago", "new york"}

-----------------------------------------------------------------------------
(* Generic helpers *)

RECURSIVE SumSeq(_)
SumSeq(s) == IF s = <<>> THEN 0 ELSE Head(s) + SumSeq(Tail(s))

Max(a, b) == IF a >= b THEN a ELSE b

\* Python's round(): n/d rounded to the nearest integer, ties to even
RoundHalfEven(n, d) ==
    LET q == n \div d
        r == n % d
    IN  IF 2 * r < d THEN q
        ELSE IF 2 * r > d THEN q + 1
        ELSE IF q % 2 = 0 THEN q ELSE q + 1

\* s without its i-th element
RemoveAt(s, i) == SubSeq(s, 1, i - 1) \o SubSeq(s, i + 1, Len(s))

\* a sequence given as a function, evaluated once into a list
List(f) == <<>> \o f

RECURSIVE Flatten(_)
Flatten(ss) == IF ss = <<>> THEN <<>> ELSE Head(ss) \o Flatten(Tail(ss))

\* all sequences over S of length at most n
SeqsUpTo(n, S) == UNION {[1..k -> S] : k \in 0..n}

\* s repeated k times
RECURSIVE Repeat(_, _)
Repeat(s, k) == IF k = 0 THEN <<>> ELSE s \o Repeat(s, k - 1)

\* dict.get(key, default)
DictGet(d, key, default) == IF key \in DOMAIN d THEN d[key] ELSE default

\* a value that is a str holding the number n, and a value that is a float
Str(n) == [str |-> n]
Num(n) == [num |-> n]
IsStr(v) == "str" \in DOMAIN v

-----------------------------------------------------------------------------
(* Exceptions.  What an operation produces is the dict it returns or, when
   an exception leaves it, the exception *)

\* an exception on its way out of a body
Raise(exc) == [raised |-> exc]

Raised(outcome) == "raised" \in DOMAIN outcome

\* mutant: except (KeyError, ValueError)
CaughtLookupOnly(exc) == exc \in {"KeyError", "ValueError"}

\* except Exception: every exception the bodies raise derives from Exception
Caught(exc) == TRUE

\* try: body / except Exception as e: return error
Try(outcome, error) ==
    IF Raised(outcome) /\ Caught(outcome.raised) THEN error ELSE outcome

\* the error result of the operations of route_optimizer_agent.py
ErrorResult(message) == [status |-> "error", message |-> message]

-----------------------------------------------------------------------------
(* __init__: the transport catalog and the coordinate table *)

\* self.transport_configs, in the dict's insertion order
TransportTypes == <<"flight", "train", "bus", "car_rental">>

\* avg_speed_kmh in km/h, cost_per_km in cents/km, carbon_per_km in g/km,
\* setup_time_hours in 1/100 hour
transport_configs ==
    [flight     |-> [avg_speed_kmh |-> 800, cost_per_km |-> 15,
                     carbon_per_km |-> 255, setup_time_hours |-> 300,
                     traffic_sensitive |-> FALSE],
     train      |-> [avg_speed_kmh |-> 120, cost_per_km |-> 8,
                     carbon_per_km |-> 41, setup_time_hours |-> 100,
                     traffic_sensitive |-> FALSE],
     bus        |-> [avg_speed_kmh |-> 80, cost_per_km |-> 5,
                     carbon_per_km |-> 89, setup_time_hours |-> 50,
                     traffic_sensitive |-> TRUE],
     car_rental |-> [avg_speed_kmh |-> 90, cost_per_km |-> 12,
                     carbon_per_km |-> 171, setup_time_hours |-> 50,
                     traffic_sensitive |-> TRUE]]

\* the keys of self.city_coordinates the requests of this model can resolve
city_coordinates == {"boston", "new york", "chicago", "washington dc"}

\* str.lower() on the names of the model
Lower(name) ==
    CASE name = "Boston" -> "boston"
      [] name = "New York" -> "new york"
      [] name = "Atlantis" -> "atlantis"
      [] OTHER -> name

\* the haversine formula on the table's coordinates, in metres
\* (306.108 km, 1365.639 km, 1144.291 km, 633.671 km, 327.583 km and
\* 955.184 km in the source's floats)
Haversine(k1, k2) ==
    IF k1 = k2 THEN 0
    ELSE IF {k1, k2} = {"boston", "new york"} THEN 306108
    ELSE IF {k1, k2} = {"boston", "chicago"} THEN 1365639
    ELSE IF {k1, k2} = {"new york", "chicago"} THEN 1144291
    ELSE IF {k1, k2} = {"boston", "washington dc"} THEN 633671
    ELSE IF {k1, k2} = {"new york", "washington dc"} THEN 327583
    ELSE 955184

\* the fallback distance, 500.0 km
DefaultDistance == 500000

\* mutant: a journey from a name to the same name is 0 km long
_calculate_distance_same_is_zero(city1, city2) ==
    IF city1 = city2 THEN 0
    ELSE IF city1 = None \/ city2 = None THEN DefaultDistance
    ELSE IF Lower(city1) \notin city_coordinates
            \/ Lower(city2) \notin city_coordinates THEN DefaultDistance
    ELSE Haversine(Lower(city1), Lower(city2))

\* _calculate_distance: None.lower() raises, and the handler returns the
\* fallback; a name the table lacks gets the fallback too
_calculate_distance(city1, city2) ==
    IF city1 = None \/ city2 = None THEN DefaultDistance
    ELSE IF Lower(city1) \notin city_coordinates
            \/ Lower(city2) \notin city_coordinates THEN DefaultDistance
    ELSE Haversine(Lower(city1), Lower(city2))

-----------------------------------------------------------------------------
(* Leg evaluation and mode selection *)

\* mutant: the road modes are never viable
_is_transport_viable_off_road(transport_type, distance_km) ==
    CASE transport_type = "flight" -> distance_km > 100000
      [] transport_type = "train" -> distance_km < 1000000 /\ distance_km > 50000
      [] OTHER -> FALSE

\* mutant: the train's lower limit is inclusive
_is_transport_viable_inclusive(transport_type, distance_km) ==
    CASE transport_type = "flight" -> distance_km > 100000
      [] transport_type = "train" -> distance_km < 1000000 /\ distance_km >= 50000
      [] transport_type = "bus" -> distance_km < 800000
      [] transport_type = "car_rental" -> distance_km < 1200000
      [] OTHER -> TRUE

_is_transport_viable(transport_type, distance_km) ==
    CASE transport_type = "flight" -> distance_km > 100000
      [] transport_type = "train" -> distance_km < 1000000 /\ distance_km > 50000
      [] transport_type = "bus" -> distance_km < 800000
      [] transport_type = "car_rental" -> distance_km < 1200000
      [] OTHER -> TRUE

_calculate_transport_option(transport_type, origin, destination, distance_km) ==
    LET config == transport_configs[transport_type]
    IN  [type |-> transport_type,
         origin |-> origin,
         destination |-> destination,
         distance_km |-> distance_km,
         cost |-> RoundHalfEven(distance_km * config.cost_per_km, 1000),
         duration_hours |->
             RoundHalfEven(distance_km, config.avg_speed_kmh * 10)
                 + config.setup_time_hours,
         carbon_footprint |->
             RoundHalfEven(distance_km * config.carbon_per_km, 10000)]

\* the key the mode selection minimises, times 100
SelectionKey(option, criteria) ==
    CASE criteria = "cost" -> option.cost
      [] criteria = "time" -> option.duration_hours
      [] criteria = "carbon" -> option.carbon_footprint
      [] OTHER -> option.cost + option.duration_hours * 10
                  + option.carbon_footprint * 100

\* Python's min(seq, key=...): the first element whose key is minimal
MinByKey(options, criteria) ==
    LET best == CHOOSE i \in DOMAIN options :
                   /\ \A j \in DOMAIN options :
                         SelectionKey(options[i], criteria)
                             <= SelectionKey(options[j], criteria)
                   /\ \A j \in 1..(i - 1) :
                         SelectionKey(options[j], criteria)
                             > SelectionKey(options[i], criteria)
    IN  options[best]

ViableOptions(origin, destination, distance_km) ==
    LET viable == SelectSeq(TransportTypes,
                            LAMBDA t : _is_transport_viable(t, distance_km))
    IN  List([i \in DOMAIN viable |->
                 _calculate_transport_option(viable[i], origin, destination,
                                             distance_km)])

\* mutant: the first viable option, whatever the criteria
_select_first_viable(origin, destination, distance_km, criteria) ==
    LET options == ViableOptions(origin, destination, distance_km)
    IN  IF options = <<>>
        THEN _calculate_transport_option("flight", origin, destination,
                                         distance_km)
        ELSE options[1]

_select_best_transport(origin, destination, distance_km, criteria) ==
    LET options == ViableOptions(origin, destination, distance_km)
    IN  IF options = <<>>
        THEN _calculate_transport_option("flight", origin, destination,
                                         distance_km)
        ELSE MinByKey(options, criteria)

-----------------------------------------------------------------------------
(* Route search *)

\* mutant: the three scores are not cut off at 0
_calculate_efficiency_score_unclamped(cost, duration_hours, carbon) ==
    (100000 - cost) * 960 + (4800 - duration_hours) * 20000
        + (100000 - carbon) * 480

\* _calculate_efficiency_score, times 2400000:
\*   100 * (0.4 * max(0, 1000 - cost) / 1000
\*          + 0.4 * max(0, 48 - duration_hours) / 48
\*          + 0.2 * max(0, 1000 - carbon) / 1000)
_calculate_efficiency_score(cost, duration_hours, carbon) ==
    LET cost_score == Max(0, 100000 - cost)
        time_score == Max(0, 4800 - duration_hours)
        carbon_score == Max(0, 100000 - carbon)
    IN  cost_score * 960 + time_score * 20000 + carbon_score * 480

\* mutant: origin and destination exchanged
TravelLegSwapped(best_transport) ==
    [origin |-> best_transport.destination,
     destination |-> best_transport.origin,
     transport_type |-> best_transport.type,
     cost |-> best_transport.cost,
     duration_hours |-> best_transport.duration_hours,
     carbon_footprint |-> best_transport.carbon_footprint]

\* the TravelLeg built from the selected option
TravelLeg(best_transport) ==
    [origin |-> best_transport.origin,
     destination |-> best_transport.destination,
     transport_type |-> best_transport.type,
     cost |-> best_transport.cost,
     duration_hours |-> best_transport.duration_hours,
     carbon_footprint |-> best_transport.carbon_footprint]

\* every city value a request of the model can name
CityValues == Names \cup StartNames \cup EndNames

\* the body of the leg loop, per (origin, destination, criteria): the distance
\* and the option selected for it; evaluated once for the legs of the model
SelectedOption ==
    [x \in CityValues \X CityValues \X Objectives |->
        LET distance_km == _calculate_distance(x[1], x[2])
        IN  _select_best_transport(x[1], x[2], distance_km, x[3])] @@ <<>>

\* the leg loop both regimes run over route_cities: the option selected for
\* each consecutive pair
SelectedOptions(route_cities, criteria) ==
    List([i \in 1..(Len(route_cities) - 1) |->
            SelectedOption[<<route_cities[i], route_cities[i + 1], criteria>>]])

\* mutant: total_carbon accumulates the options' cost
BuildRouteCarbonFromCost(route_cities, criteria) ==
    LET selected == SelectedOptions(route_cities, criteria)
        total_cost == SumSeq([i \in DOMAIN selected |-> selected[i].cost])
        total_duration ==
            SumSeq([i \in DOMAIN selected |-> selected[i].duration_hours])
    IN  [legs |-> List([i \in DOMAIN selected |-> TravelLeg(selected[i])]),
         total_cost |-> total_cost,
         total_duration_hours |-> total_duration,
         total_carbon_footprint |-> total_cost,
         efficiency_score |->
             _calculate_efficiency_score(total_cost, total_duration,
                                         total_cost)]

\* the OptimizedRoute of one visiting order: a leg per selected option, and
\* the totals the loop accumulates from the options' values
BuildRoute(route_cities, criteria) ==
    LET selected == SelectedOptions(route_cities, criteria)
        total_cost == SumSeq([i \in DOMAIN selected |-> selected[i].cost])
        total_duration ==
            SumSeq([i \in DOMAIN selected |-> selected[i].duration_hours])
        total_carbon ==
            SumSeq([i \in DOMAIN selected |-> selected[i].carbon_footprint])
    IN  [legs |-> List([i \in DOMAIN selected |-> TravelLeg(selected[i])]),
         total_cost |-> total_cost,
         total_duration_hours |-> total_duration,
         total_carbon_footprint |-> total_carbon,
         efficiency_score |->
             _calculate_efficiency_score(total_cost, total_duration,
                                         total_carbon)]

\* itertools.permutations(s): by position, in lexicographic order of positions
RECURSIVE permutations(_)
permutations(s) ==
    IF s = <<>> THEN << <<>> >>
    ELSE Flatten(List([i \in DOMAIN s |->
                    LET rest == permutations(RemoveAt(s, i))
                    IN  List([k \in DOMAIN rest |-> <<s[i]>> \o rest[k]])]))

\* mutant: the end is always appended
RouteCitiesRoundTrip(start, order, end) == <<start>> \o order \o <<end>>

\* route_cities of one visiting order: the end is appended only when it
\* differs from the start
RouteCities(start, order, end) ==
    IF end # start THEN <<start>> \o order \o <<end>> ELSE <<start>> \o order

_optimize_small_route(start, intermediate_cities, end, criteria) ==
    LET perms == permutations(intermediate_cities)
    IN  List([k \in DOMAIN perms |->
                 BuildRoute(RouteCities(start, perms[k], end), criteria)])

\* the nearest-neighbour loop: min(remaining_cities, key=distance from
\* current_city) takes the first nearest entry, list.remove() drops its first
\* occurrence
RECURSIVE NearestNeighbour(_, _, _)
NearestNeighbour(current_city, remaining_cities, route_cities) ==
    IF remaining_cities = <<>> THEN route_cities
    ELSE LET distance == List([i \in DOMAIN remaining_cities |->
                                 _calculate_distance(current_city,
                                                     remaining_cities[i])])
             nearest == CHOOSE i \in DOMAIN distance :
                           /\ \A j \in DOMAIN distance :
                                 distance[i] <= distance[j]
                           /\ \A j \in 1..(i - 1) : distance[j] > distance[i]
             nearest_city == remaining_cities[nearest]
             first == CHOOSE i \in DOMAIN remaining_cities :
                         /\ remaining_cities[i] = nearest_city
                         /\ \A j \in 1..(i - 1) :
                               remaining_cities[j] # nearest_city
         IN  NearestNeighbour(nearest_city, RemoveAt(remaining_cities, first),
                              Append(route_cities, nearest_city))

\* mutant: the stops are visited in the order of the list
_optimize_large_route_as_listed(start, intermediate_cities, end, criteria) ==
    LET tour == <<start>> \o intermediate_cities
        route_cities == IF end # start THEN Append(tour, end) ELSE tour
    IN  <<BuildRoute(route_cities, criteria)>>

_optimize_large_route(start, intermediate_cities, end, criteria) ==
    LET tour == NearestNeighbour(start, intermediate_cities, <<start>>)
        route_cities == IF end # start THEN Append(tour, end) ELSE tour
    IN  <<BuildRoute(route_cities, criteria)>>

-----------------------------------------------------------------------------
(* Ranking *)

\* mutant: every criteria sorts on the total cost
RankKeyCostOnly(route, criteria) == route.total_cost

\* the key routes.sort() compares, per criteria
RankKey(route, criteria) ==
    CASE criteria = "cost" -> route.total_cost
      [] criteria = "time" -> route.total_duration_hours
      [] criteria = "carbon" -> route.total_carbon_footprint
      [] OTHER -> route.efficiency_score

\* mutant: no branch sorts with reverse=True
RankReverseNever(criteria) == FALSE

\* only the balanced branch sorts with reverse=True
RankReverse(criteria) == criteria \notin {"cost", "time", "carbon"}

\* list.sort(key=..., reverse=...) as the positions of the input in output
\* order: a stable insertion sort (what CPython runs on short lists); with
\* reverse the order is descending and equal keys still keep their order
RECURSIVE SortPositions(_, _, _)
SortPositions(keys, reverse, n) ==
    IF n = 0 THEN <<>>
    ELSE LET prev == SortPositions(keys, reverse, n - 1)
             stays(j) == IF reverse THEN keys[j] >= keys[n]
                                    ELSE keys[j] <= keys[n]
             pos == Cardinality({k \in DOMAIN prev : stays(prev[k])})
         IN  SubSeq(prev, 1, pos) \o <<n>> \o SubSeq(prev, pos + 1, Len(prev))

\* routes after routes.sort(...) of _rank_routes
SortRoutes(routes, criteria) ==
    LET keys == List([i \in DOMAIN routes |-> RankKey(routes[i], criteria)])
        order == SortPositions(keys, RankReverse(criteria), Len(routes))
    IN  List([i \in DOMAIN routes |-> routes[order[i]]])

\* f"{x:.1f}" of a value held in 1/100: the value in 1/10 (a value ending
\* in 5 hundredths is printed up or down by the float's binary expansion in
\* the source; the model rounds it to even)
Format1(x) == RoundHalfEven(x, 10)

\* the serialisable dict of the route sorted to position i: costs and carbon
\* printed with two decimals, durations with one, the score rounded to two
RouteDict(route, i) ==
    [rank |-> i,
     total_cost |-> route.total_cost,
     total_duration |-> Format1(route.total_duration_hours),
     total_carbon |-> route.total_carbon_footprint,
     efficiency_score |-> RoundHalfEven(route.efficiency_score, 24000),
     legs |-> List([k \in DOMAIN route.legs |->
                     [origin |-> route.legs[k].origin,
                      destination |-> route.legs[k].destination,
                      transport_type |-> route.legs[k].transport_type,
                      cost |-> route.legs[k].cost,
                      duration |-> Format1(route.legs[k].duration_hours),
                      carbon |-> route.legs[k].carbon_footprint]])]

\* _rank_routes on the list already sorted
_rank_routes(sorted) ==
    List([i \in DOMAIN sorted |-> RouteDict(sorted[i], i)])

-----------------------------------------------------------------------------
(* optimize_multi_city_route *)

\* the regime switch: more intermediate cities than this use the heuristic
ExactLimit == 8

\* routes of the ranking the result keeps
TopRoutes == 5

\* mutant: only the entries equal to the start city are dropped
IntermediateCitiesKeepEnd(cs, start, end) ==
    SelectSeq(cs, LAMBDA city : city # start)

\* intermediate_cities: the entries of cities that are neither start nor end
IntermediateCities(cs, start, end) ==
    SelectSeq(cs, LAMBDA city : city \notin {start, end})

\* end_city after the default was applied
EndOrStart(start, end) == IF end = None THEN start ELSE end

\* mutant: every request is searched by the heuristic
CandidatesHeuristicOnly(cs, start, end, criteria) ==
    _optimize_large_route(start, IntermediateCities(cs, start, end), end,
                          criteria)

\* the candidates the handler builds, in the order the regime built them
Candidates(cs, start, end, criteria) ==
    LET intermediate_cities == IntermediateCities(cs, start, end)
    IN  IF Len(intermediate_cities) > ExactLimit
        THEN _optimize_large_route(start, intermediate_cities, end, criteria)
        ELSE _optimize_small_route(start, intermediate_cities, end, criteria)

\* mutant: no truncation
FirstNAll(s, n) == s

FirstN(s, n) == SubSeq(s, 1, IF Len(s) < n THEN Len(s) ELSE n)

optimize_multi_city_route ==
    /\ pc = "call"
    /\ op = "optimize_multi_city_route"
    /\ IF "cities" \in DOMAIN request
       THEN \* the caller passed None for the list: len(None) raises
            /\ result' = Try(Raise("TypeError"),
                             ErrorResult("Route optimization failed"))
            /\ UNCHANGED <<all_routes, optimized_routes>>
       ELSE LET end == EndOrStart(start_city, end_city)
                built == Candidates(cities, start_city, end, optimize_for)
                sorted == SortRoutes(built, optimize_for)
                ranked_routes == _rank_routes(sorted)
            IN  /\ all_routes' = built
                /\ optimized_routes' = sorted
                /\ result' = [status |-> "success",
                              criteria |-> optimize_for,
                              total_cities |-> Len(cities),
                              routes |-> FirstN(ranked_routes, TopRoutes)]
    /\ pc' = "done"
    /\ UNCHANGED <<cities, start_city, end_city, optimize_for>>
    /\ UNCHANGED <<trafficVars, raceVars, apiVars>>

\* one call of _select_best_transport, the mode selection of one leg
SelectLeg ==
    /\ pc = "call"
    /\ op = "_select_best_transport"
    /\ result' = _select_best_transport(request.origin, request.destination,
                                        request.distance_km,
                                        request.optimize_for)
    /\ pc' = "done"
    /\ UNCHANGED <<searchVars, trafficVars, raceVars, apiVars>>

\* one call of _calculate_distance
MeasureDistance ==
    /\ pc = "call"
    /\ op = "_calculate_distance"
    /\ result' = [status |-> "measured",
                  distance_km |->
                      _calculate_distance(request.city1, request.city2)]
    /\ pc' = "done"
    /\ UNCHANGED <<searchVars, trafficVars, raceVars, apiVars>>

\* one call of _calculate_efficiency_score on the totals of a route
ScoreRoute ==
    /\ pc = "call"
    /\ op = "_calculate_efficiency_score"
    /\ result' = [status |-> "scored",
                  efficiency |->
                      _calculate_efficiency_score(
                          request.cost, request.duration_hours,
                          request.carbon)]
    /\ pc' = "done"
    /\ UNCHANGED <<searchVars, trafficVars, raceVars, apiVars>>

-----------------------------------------------------------------------------
(* optimize_transport_mix *)

\* preferences.get(key, default): None stands for a missing key
GetOr(value, default) == IF value = None THEN default ELSE value

\* mutant: the combination is offered at every distance
MultiModalOfferedAlways(distance_km) == TRUE

\* line 470: the combination is offered above 1000 km
MultiModalOffered(distance_km) == distance_km > 1000000

\* _generate_multi_modal_options: 80% of the way by flight and 20% by bus,
\* offered above 1000 km
_generate_multi_modal_options(origin, destination, distance_km) ==
    LET flight_config == transport_configs["flight"]
        bus_config == transport_configs["bus"]
    IN  IF MultiModalOffered(distance_km)
        THEN <<[type |-> "multi_modal_flight_bus",
                origin |-> origin,
                destination |-> destination,
                distance_km |-> distance_km,
                cost |-> RoundHalfEven(
                    distance_km * ((8 * flight_config.cost_per_km
                                    + 2 * bus_config.cost_per_km) \div 10),
                    1000),
                duration_hours |->
                    RoundHalfEven(
                        distance_km * ((8 * bus_config.avg_speed_kmh
                                        + 2 * flight_config.avg_speed_kmh)
                                       \div 10),
                        flight_config.avg_speed_kmh
                            * bus_config.avg_speed_kmh * 10)
                    + flight_config.setup_time_hours
                    + bus_config.setup_time_hours,
                carbon_footprint |-> RoundHalfEven(
                    distance_km * ((8 * flight_config.carbon_per_km
                                    + 2 * bus_config.carbon_per_km) \div 2),
                    50000),
                modes |-> <<"flight", "bus">>]>>
        ELSE <<>>

\* mutant: a criteria that is none of the named ones sorts by cost
OptionRankKeyDefaultCost(option, criteria) ==
    CASE criteria = "time" -> option.duration_hours
      [] criteria = "carbon" -> option.carbon_footprint
      [] OTHER -> option.cost

\* the sort keys of _rank_transport_options
OptionRankKey(option, criteria) ==
    CASE criteria = "cost" -> option.cost
      [] criteria = "time" -> option.duration_hours
      [] criteria = "carbon" -> option.carbon_footprint
      [] OTHER -> option.cost + option.duration_hours * 10
                  + option.carbon_footprint * 100

\* _rank_transport_options: options.sort(key), then the rank and the
\* formatted fields written into every option
_rank_transport_options(options, criteria) ==
    LET keys == List([i \in DOMAIN options |->
                        OptionRankKey(options[i], criteria)])
        order == SortPositions(keys, FALSE, Len(options))
    IN  List([i \in DOMAIN options |->
            options[order[i]] @@
            [rank |-> i,
             cost_formatted |-> options[order[i]].cost,
             duration_formatted |-> Format1(options[order[i]].duration_hours),
             carbon_formatted |-> options[order[i]].carbon_footprint]])

\* the body of optimize_transport_mix
TransportMix(origin, destination, preferred) ==
    LET distance_km == _calculate_distance(origin, destination)
        single == ViableOptions(origin, destination, distance_km)
        multi_modal_options ==
            IF distance_km > 500000
            THEN _generate_multi_modal_options(origin, destination,
                                               distance_km)
            ELSE <<>>
        transport_options == single \o multi_modal_options
    IN  IF distance_km = 0
        THEN [status |-> "error",
              message |-> "Cannot calculate distance between cities"]
        ELSE [status |-> "success",
              optimization_type |-> "transport_mix",
              origin |-> origin,
              destination |-> destination,
              distance_km |-> distance_km,
              options |-> _rank_transport_options(
                              transport_options, GetOr(preferred, "balanced"))]

optimize_transport_mix ==
    /\ pc = "call"
    /\ op = "optimize_transport_mix"
    /\ result' = Try(TransportMix(request.origin, request.destination,
                                  request.optimize_for),
                     ErrorResult("Transport optimization failed"))
    /\ pc' = "done"
    /\ UNCHANGED <<searchVars, trafficVars, raceVars, apiVars>>

-----------------------------------------------------------------------------
(* calculate_itinerary_timing.  Hours are held in 1/100 hour, and a datetime
   is the 1/100 hours since midnight of the first leg's date, which its
   isoformat() names one to one.  A request holds route_legs unless the
   caller passed None for it *)

\* preferences.get('min_layover_hours', 2)
DefaultMinLayover == 200

\* preferences.get('preferred_departure_time', '09:00')
DefaultDeparture == 900

\* leg.get('duration_hours', 2)
DefaultTravelTime == 200

\* .get('setup_time_hours', 1) for a type the catalog lacks
DefaultSetupTime == 100

\* a preferred_departure_time that strptime rejects
BadClock == 2500

\* setup_time_hours of the leg's type; a leg without a type counts as a flight
SetupTime(leg) ==
    LET type == DictGet(leg, "transport_type", "flight")
    IN  IF type \in DOMAIN transport_configs
        THEN transport_configs[type].setup_time_hours
        ELSE DefaultSetupTime

\* mutant: the wait before the next leg is the leg's own layover
LayoverOwn(leg, min_layover_hours) ==
    DictGet(leg, "layover_hours", min_layover_hours)

\* line 232: the wait between the arrival of a leg and the next departure
Layover(leg, min_layover_hours) ==
    Max(min_layover_hours, DictGet(leg, "layover_hours", min_layover_hours))

\* the loop over route_legs from leg i on, entered with current_datetime
RECURSIVE TimedLegs(_, _, _, _)
TimedLegs(route_legs, i, current_datetime, min_layover_hours) ==
    IF i > Len(route_legs) THEN <<>>
    ELSE LET leg == route_legs[i]
             travel_time_hours ==
                 DictGet(leg, "duration_hours", DefaultTravelTime)
             departure_time == current_datetime
             arrival_time == departure_time + travel_time_hours
                                 + SetupTime(leg)
             optimized_leg ==
                 [leg_number |-> i,
                  origin |-> DictGet(leg, "origin", None),
                  destination |-> DictGet(leg, "destination", None),
                  transport_type |-> DictGet(leg, "transport_type", None),
                  departure_datetime |-> departure_time,
                  arrival_datetime |-> arrival_time,
                  duration_hours |-> travel_time_hours,
                  layover_time_hours |->
                      IF i < Len(route_legs)
                      THEN DictGet(leg, "layover_hours", min_layover_hours)
                      ELSE 0]
             layover_hours == Layover(leg, min_layover_hours)
         IN  <<optimized_leg>>
             \o TimedLegs(route_legs, i + 1, arrival_time + layover_hours,
                          min_layover_hours)

\* the body of calculate_itinerary_timing: the result, or what it raises
ItineraryTiming(req) ==
    LET preferences == DictGet(req, "preferences", <<>>)
        min_layover_hours ==
            DictGet(preferences, "min_layover_hours", DefaultMinLayover)
        preferred_departure_time ==
            DictGet(preferences, "preferred_departure_time", DefaultDeparture)
    IN  IF "route_legs" \notin DOMAIN req THEN Raise("TypeError")
        ELSE IF req.route_legs = <<>> THEN Raise("IndexError")
        ELSE IF preferred_departure_time = BadClock THEN Raise("ValueError")
        ELSE
        LET optimized_legs == TimedLegs(req.route_legs, 1,
                                        preferred_departure_time,
                                        min_layover_hours)
            total_travel_time ==
                SumSeq([k \in DOMAIN optimized_legs |->
                           optimized_legs[k].duration_hours])
            total_layover_time ==
                SumSeq([k \in DOMAIN optimized_legs |->
                           optimized_legs[k].layover_time_hours])
        IN  [status |-> "success",
             optimization_type |-> "itinerary_timing",
             legs |-> optimized_legs,
             summary |->
                 [total_legs |-> Len(optimized_legs),
                  total_travel_hours |-> total_travel_time,
                  total_layover_hours |-> total_layover_time,
                  total_trip_hours |-> total_travel_time + total_layover_time,
                  departure_datetime |-> optimized_legs[1].departure_datetime,
                  arrival_datetime |->
                      optimized_legs[Len(optimized_legs)].arrival_datetime]]

calculate_itinerary_timing ==
    /\ pc = "call"
    /\ op = "calculate_itinerary_timing"
    /\ result' = Try(ItineraryTiming(request),
                     ErrorResult("Itinerary timing failed"))
    /\ pc' = "done"
    /\ UNCHANGED <<searchVars, trafficVars, raceVars, apiVars>>

-----------------------------------------------------------------------------
(* analyze_route_alternatives.  A leg of the base route carries its cost
   as "$12.34" (Str of the cents) and its duration as "1.5h" (Str of the
   1/10 hours), the way _rank_routes wrote them; a caller's own leg may
   carry a float instead (Num).  A request holds base_route unless the
   caller passed None for it *)

\* transport_alternatives[:3]
TopAlternatives == 3

\* the viable options of a leg other than its current type
TransportAlternatives(leg) ==
    LET origin == DictGet(leg, "origin", None)
        destination == DictGet(leg, "destination", None)
        current_transport == DictGet(leg, "transport_type", None)
        distance_km == _calculate_distance(origin, destination)
    IN  SelectSeq(ViableOptions(origin, destination, distance_km),
                  LAMBDA o : o.type # current_transport)

\* alternatives['alternatives'] from leg i on
RECURSIVE LegAlternatives(_, _)
LegAlternatives(legs, i) ==
    IF i > Len(legs) THEN <<>>
    ELSE LET transport_alternatives == TransportAlternatives(legs[i])
         IN  (IF transport_alternatives = <<>> THEN <<>>
              ELSE <<[leg_number |-> i,
                      current |-> legs[i],
                      alternatives |->
                          FirstN(transport_alternatives, TopAlternatives)]>>)
             \o LegAlternatives(legs, i + 1)

\* the cost recommendation for one entry of alternatives['alternatives']:
\* the savings in cents and the recommendation, or what the lines raise
CostRecommendation(alt) ==
    LET cheapest == MinByKey(alt.alternatives, "cost")
        cost == DictGet(alt.current, "cost", Str(0))
        duration == DictGet(alt.current, "duration", Str(0))
        savings == cost.str - cheapest.cost
    IN  IF ~IsStr(cost) THEN Raise("AttributeError")
        ELSE IF savings <= 0 THEN [savings |-> 0, recommendations |-> <<>>]
        ELSE IF "transport_type" \notin DOMAIN alt.current
        THEN Raise("KeyError")
        ELSE IF ~IsStr(duration) THEN Raise("AttributeError")
        ELSE [savings |-> savings,
              recommendations |->
                  <<[type |-> "cost_optimization",
                     leg |-> alt.leg_number,
                     suggestion |-> <<"Switch from",
                                      alt.current.transport_type,
                                      "to", cheapest.type>>,
                     savings |-> savings,
                     trade_off |-> Format1(cheapest.duration_hours
                                           - 10 * duration.str)]>>]

\* the recommendation loop from entry k on, or what it raises
RECURSIVE CostRecommendations(_, _, _)
CostRecommendations(alts, k, acc) ==
    IF k > Len(alts) THEN acc
    ELSE LET one == CostRecommendation(alts[k])
         IN  IF Raised(one) THEN one
             ELSE CostRecommendations(
                      alts, k + 1,
                      [total_savings |-> acc.total_savings + one.savings,
                       recommendations |->
                           acc.recommendations \o one.recommendations])

\* the body of analyze_route_alternatives: the result, or what it raises
RouteAlternatives(req) ==
    IF "base_route" \notin DOMAIN req THEN Raise("AttributeError")
    ELSE
    LET base_route == req.base_route
        legs == DictGet(base_route, "legs", <<>>)
        alts == LegAlternatives(legs, 1)
        found == CostRecommendations(
                     alts, 1, [total_savings |-> 0, recommendations |-> <<>>])
    IN  IF legs = <<>> THEN ErrorResult("No route legs provided")
        ELSE IF Raised(found) THEN found
        ELSE [status |-> "success",
              base_route |-> base_route,
              alternatives |-> alts,
              recommendations |->
                  (IF found.total_savings > 0
                   THEN <<[type |-> "overall_savings",
                           suggestion |-> found.total_savings,
                           priority |-> "high"]>>
                   ELSE <<>>) \o found.recommendations]

analyze_route_alternatives ==
    /\ pc = "call"
    /\ op = "analyze_route_alternatives"
    /\ result' = Try(RouteAlternatives(request),
                     ErrorResult("Route analysis failed"))
    /\ pc' = "done"
    /\ UNCHANGED <<searchVars, trafficVars, raceVars, apiVars>>

-----------------------------------------------------------------------------
(* Traffic snapshots and their cache (route_optimizer_clean.py) *)

\* minutes the clock of the model runs, and minutes between two instants
\* at which the agent is called
MaxTime == 20
TickMinutes == 5

\* the wall clock when the agent is built, in minutes since midnight (06:50)
StartMinute == 410

\* (origin, destination) pairs traffic is asked for
TrafficRoutes == {<<"boston", "new york">>}

\* transport types traffic is asked for
TrafficModes == {"flight", "train", "bus", "car_rental"}

\* the random draws of one synthesis: random.random() < 0.3, random.choice
Weathers == {"clear", "rain", "snow"}

\* self.cache_expiry_minutes
cache_expiry_minutes == 15

\* self.traffic_conditions['peak_hours']
peak_hours == {7, 8, 17, 18, 19}

\* congestion_multipliers and weather_impact the synthesis reads, in 1/100
\* and 1/10
congestion_multipliers == [moderate |-> 130, heavy |-> 180]
weather_impact == [clear |-> 10, rain |-> 12, snow |-> 15]

\* datetime.now().hour
Hour(t) == ((StartMinute + t) \div 60) % 24

\* mutant: a missing flag reads as True, and so does a False one
TrafficSensitiveAlways(transport_type) == TRUE

\* transport_configs.get(transport_type, {}).get('traffic_sensitive', False)
TrafficSensitive(transport_type) ==
    IF transport_type \in DOMAIN transport_configs
    THEN transport_configs[transport_type].traffic_sensitive
    ELSE FALSE

\* f"{origin}_{destination}_{transport_type}"
CacheKey(origin, destination, transport_type) ==
    origin \o "_" \o destination \o "_" \o transport_type

\* mutant: an entry is still served when exactly cache_expiry_minutes old
CacheValidInclusive(cache, cache_key, t) ==
    /\ cache_key \in DOMAIN cache
    /\ t - cache[cache_key].timestamp <= cache_expiry_minutes

\* whether the entry under cache_key is still served at time t
CacheValid(cache, cache_key, t) ==
    /\ cache_key \in DOMAIN cache
    /\ t - cache[cache_key].timestamp < cache_expiry_minutes

\* _get_cached_traffic_data: the entry's data, or None (found is FALSE)
_get_cached_traffic_data(cache, cache_key, t) ==
    IF CacheValid(cache, cache_key, t)
    THEN [found |-> TRUE, data |-> cache[cache_key].data]
    ELSE [found |-> FALSE]

\* mutant: dict.setdefault, an entry already under the key is kept
_cache_traffic_data_setdefault(cache, cache_key, data, t) ==
    IF cache_key \in DOMAIN cache THEN cache
    ELSE cache @@ (cache_key :> [data |-> data, timestamp |-> t])

\* _cache_traffic_data
_cache_traffic_data(cache, cache_key, data, t) ==
    [k \in DOMAIN cache \cup {cache_key} |->
        IF k = cache_key THEN [data |-> data, timestamp |-> t] ELSE cache[k]]

\* _simulate_traffic_conditions at time t; heavy and weather are the two
\* random draws; congestion_level in 1/100, delay_minutes truncated by int()
_simulate_traffic_conditions(origin, destination, transport_type, t, heavy, weather) ==
    LET distance_km == _calculate_distance(origin, destination)
        peak == Hour(t) \in peak_hours
        base_conditions == IF ~peak THEN "normal"
                           ELSE IF heavy THEN "heavy" ELSE "moderate"
        base_multiplier == IF ~peak THEN 100
                           ELSE IF heavy THEN congestion_multipliers.heavy
                           ELSE congestion_multipliers.moderate
        delay_multiplier == IF distance_km > 200000
                            THEN (base_multiplier * 11) \div 10
                            ELSE base_multiplier
        speed == transport_configs[transport_type].avg_speed_kmh
        base_delay == Max(0, ((delay_multiplier - 100) * distance_km * 6)
                             \div (10000 * speed))
    IN  [status |-> "success",
         conditions |-> IF weather # "clear"
                        THEN base_conditions \o "_" \o weather
                        ELSE base_conditions,
         delay_minutes |-> IF weather # "clear"
                           THEN (base_delay * weather_impact[weather]) \div 10
                           ELSE base_delay,
         weather |-> weather,
         congestion_level |-> delay_multiplier,
         distance_km |-> distance_km,
         timestamp |-> t]

\* what a call for a type that is not traffic sensitive returns
NotApplicable(transport_type) ==
    [status |-> "success",
     traffic_impact |-> "none",
     delay_minutes |-> 0,
     conditions |-> "not_applicable",
     transport_type |-> transport_type]

\* mutant: the answer for a type that is not traffic sensitive is cached too
TrafficDataCachesAll(cache, origin, destination, transport_type, t, heavy, weather) ==
    LET cache_key == CacheKey(origin, destination, transport_type)
        cached_data == _get_cached_traffic_data(cache, cache_key, t)
        traffic_data == IF ~TrafficSensitive(transport_type)
                        THEN NotApplicable(transport_type)
                        ELSE _simulate_traffic_conditions(
                                 origin, destination, transport_type, t,
                                 heavy, weather)
    IN  IF cached_data.found
        THEN [ret |-> cached_data.data, cache |-> cache]
        ELSE [ret |-> traffic_data,
              cache |-> _cache_traffic_data(cache, cache_key, traffic_data, t)]

\* what get_real_time_traffic_data returns when the fetch raised
FetchError ==
    [status |-> "error",
     message |-> "Traffic data fetch failed",
     fallback_conditions |-> "normal"]

\* a transport_type that cannot be a dict key (a list)
Unhashable == "<unhashable>"

\* get_real_time_traffic_data as (returned dict, cache afterwards);
\* transport_configs.get raises TypeError on a key that cannot be hashed
TrafficData(cache, origin, destination, transport_type, t, heavy, weather) ==
    IF transport_type = Unhashable
    THEN [ret |-> Try(Raise("TypeError"), FetchError), cache |-> cache]
    ELSE IF ~TrafficSensitive(transport_type)
    THEN [ret |-> NotApplicable(transport_type), cache |-> cache]
    ELSE LET cache_key == CacheKey(origin, destination, transport_type)
             cached_data == _get_cached_traffic_data(cache, cache_key, t)
             traffic_data == _simulate_traffic_conditions(
                                 origin, destination, transport_type, t,
                                 heavy, weather)
         IN  IF cached_data.found
             THEN [ret |-> cached_data.data, cache |-> cache]
             ELSE [ret |-> traffic_data,
                   cache |-> _cache_traffic_data(cache, cache_key,
                                                 traffic_data, t)]

\* the history of writes after one more write
Written(w, cache_key, data, t, origin, destination, transport_type) ==
    [k \in DOMAIN w \cup {cache_key} |->
        IF k = cache_key
        THEN [data |-> data, at |-> t, origin |-> origin,
              destination |-> destination, transport_type |-> transport_type]
        ELSE w[k]]

get_real_time_traffic_data(origin, destination, transport_type) ==
    \E heavy \in BOOLEAN, weather \in Weathers :
        LET out == TrafficData(traffic_cache, origin, destination,
                               transport_type, now, heavy, weather)
            cache_key == CacheKey(origin, destination, transport_type)
        IN  /\ last_call' = [origin |-> origin, destination |-> destination,
                             transport_type |-> transport_type, at |-> now,
                             prior |-> IF cache_key \in DOMAIN traffic_cache
                                       THEN <<traffic_cache[cache_key]>>
                                       ELSE <<>>]
            /\ last_result' = out.ret
            /\ traffic_cache' = out.cache
            /\ written' = IF out.cache = traffic_cache THEN written
                          ELSE Written(written, cache_key, out.ret, now,
                                       origin, destination, transport_type)
            /\ UNCHANGED now
            /\ UNCHANGED <<routeVars, raceVars, apiVars>>

\* time passes
Tick ==
    /\ now + TickMinutes <= MaxTime
    /\ now' = now + TickMinutes
    /\ UNCHANGED <<traffic_cache, last_call, last_result, written>>
    /\ UNCHANGED <<routeVars, raceVars, apiVars>>

-----------------------------------------------------------------------------
(* Applying a snapshot to an option, and ranking the adjusted options.
   Options are dicts the code copies and writes into, so they live in a heap:
   a list of dicts, an option being its position in the list.
   Units of the adjusted fields:
     traffic_adjusted_cost      1/10 cent
     real_time_duration_hours   1/600 hour
     traffic_adjusted_carbon    1/600 kg
   and of the three _ranking_ fields likewise. *)

\* mutant: no copy, the new name is bound to the dict passed in
CopyDictAlias(h, id) == [heap |-> h, ret |-> id]

\* dict.copy(): a new dict with the same items
CopyDict(h, id) == [heap |-> Append(h, h[id]), ret |-> Len(h) + 1]

\* d[key] = value for every key of items, in the dict at id
SetItems(h, id, items) == [h EXCEPT ![id] = items @@ h[id]]

\* mutant: a delay of 30 minutes is surcharged too
SurchargedInclusive(delay_minutes) == delay_minutes >= 30

\* whether the delay raises the cost
Surcharged(delay_minutes) == delay_minutes > 30

\* whether the delay raises the carbon footprint
IdlesInTraffic(type) == type = "car_rental"

\* _apply_traffic_to_option on the heap: the heap afterwards and the
\* option returned
_apply_traffic_to_option(h, base_option, traffic_data) ==
    LET copied == CopyDict(h, base_option)
        enhanced_option == copied.ret
        e == copied.heap[enhanced_option]
        delay_minutes == DictGet(traffic_data, "delay_minutes", 0)
        items ==
            [real_time_duration_hours |->
                 6 * e.duration_hours + 10 * delay_minutes,
             traffic_delay_minutes |-> delay_minutes,
             traffic_conditions |->
                 DictGet(traffic_data, "conditions", "normal"),
             traffic_adjusted_cost |->
                 IF Surcharged(delay_minutes)
                 THEN 10 * e.cost + e.cost
                 ELSE 10 * e.cost,
             traffic_adjusted_carbon |->
                 IF IdlesInTraffic(e.type)
                 THEN 6 * e.carbon_footprint + 25 * delay_minutes
                 ELSE 6 * e.carbon_footprint]
    IN  IF DictGet(traffic_data, "status", None) = "success"
        THEN [heap |-> SetItems(copied.heap, enhanced_option, items),
              ret |-> enhanced_option]
        ELSE [heap |-> copied.heap, ret |-> enhanced_option]

\* the first loop of _rank_traffic_enhanced_options: the values ranked on
RankingItems(option) ==
    [_ranking_duration |->
         DictGet(option, "real_time_duration_hours",
                 6 * option.duration_hours),
     _ranking_cost |->
         DictGet(option, "traffic_adjusted_cost", 10 * option.cost),
     _ranking_carbon |->
         DictGet(option, "traffic_adjusted_carbon",
                 6 * option.carbon_footprint)]

\* the sort keys of _rank_traffic_enhanced_options; the balanced key is
\* cost + duration * 10 + carbon * 100, times 3000
TrafficRankKey(option, criteria) ==
    CASE criteria = "cost" -> option._ranking_cost
      [] criteria = "time" -> option._ranking_duration
      [] criteria = "carbon" -> option._ranking_carbon
      [] OTHER -> 3 * option._ranking_cost + 50 * option._ranking_duration
                  + 500 * option._ranking_carbon

\* the traffic_impact line of an option
TrafficImpact(option) ==
    IF DictGet(option, "traffic_delay_minutes", 0) > 0
    THEN "+" \o ToString(option.traffic_delay_minutes) \o " min delay ("
         \o DictGet(option, "traffic_conditions", "unknown") \o ")"
    ELSE "No significant impact"

\* the items the second loop writes into the option sorted to position i
RankedItems(option, i) ==
    [rank |-> i,
     cost_formatted |-> RoundHalfEven(option._ranking_cost, 10),
     duration_formatted |-> RoundHalfEven(option._ranking_duration, 60),
     carbon_formatted |-> RoundHalfEven(option._ranking_carbon, 6),
     traffic_impact |-> TrafficImpact(option)]

\* the first loop, from the k-th option on
RECURSIVE SetRankingItems(_, _, _)
SetRankingItems(h, options, k) ==
    IF k > Len(options) THEN h
    ELSE SetRankingItems(
             SetItems(h, options[k], RankingItems(h[options[k]])),
             options, k + 1)

\* the second loop, from the k-th option on
RECURSIVE SetRankedItems(_, _, _)
SetRankedItems(h, options, k) ==
    IF k > Len(options) THEN h
    ELSE SetRankedItems(
             SetItems(h, options[k], RankedItems(h[options[k]], k)),
             options, k + 1)

\* _rank_traffic_enhanced_options on the heap: the heap afterwards and the
\* list returned, which is the list passed in, sorted in place
_rank_traffic_enhanced_options(h, options, criteria) ==
    LET h1 == SetRankingItems(h, options, 1)
        keys == List([i \in DOMAIN options |->
                        TrafficRankKey(h1[options[i]], criteria)])
        order == SortPositions(keys, FALSE, Len(options))
        sorted == List([i \in DOMAIN options |-> options[order[i]]])
    IN  [heap |-> SetRankedItems(h1, sorted, 1), ret |-> sorted]

\* the types the loop of optimize_route_with_traffic keeps for a distance
ViableTypeList(distance_km) ==
    SelectSeq(TransportTypes, LAMBDA t : _is_transport_viable(t, distance_km))

\* lines 194-202 for the types from the k-th on: the base option built, the
\* snapshot of its type applied, the enhanced option appended
RECURSIVE ApplyEach(_, _, _, _, _)
ApplyEach(h, types, k, req, acc) ==
    IF k > Len(types) THEN [heap |-> h, options |-> acc.options,
                            base_options |-> acc.base_options]
    ELSE LET base == _calculate_transport_option(
                         types[k], req.origin, req.destination,
                         _calculate_distance(req.origin, req.destination))
             h1 == Append(h, base)
             base_option == Len(h1)
             applied == _apply_traffic_to_option(h1, base_option,
                                                 req.traffic[types[k]])
         IN  ApplyEach(applied.heap, types, k + 1, req,
                       [options |-> Append(acc.options, applied.ret),
                        base_options |->
                            Append(acc.base_options, base_option)])

\* the snapshots of the request applied to the options of its journey
ApplyTraffic ==
    /\ pc = "call"
    /\ op = "_apply_traffic_to_option"
    /\ LET types == ViableTypeList(
                        _calculate_distance(request.origin,
                                            request.destination))
           out == ApplyEach(heap, types, 1, request,
                            [options |-> <<>>, base_options |-> <<>>])
       IN  /\ heap' = out.heap
           /\ result' = [status |-> "applied", options |-> out.options,
                         base_options |-> out.base_options]
    /\ pc' = "applied"
    /\ UNCHANGED <<searchVars, trafficVars, raceVars, op, request>>

\* the enhanced options ranked
RankEnhanced ==
    /\ pc = "applied"
    /\ op = "_apply_traffic_to_option"
    /\ LET out == _rank_traffic_enhanced_options(
                      heap, result.options,
                      GetOr(request.optimize_for, "balanced"))
       IN  /\ heap' = out.heap
           /\ result' = [result EXCEPT !.status = "ranked",
                                       !.options = out.ret]
    /\ pc' = "done"
    /\ UNCHANGED <<searchVars, trafficVars, raceVars, op, request>>

-----------------------------------------------------------------------------
(* optimize_route_with_traffic, the whole handler.  The loop fetches the
   snapshot of a type and applies it before it turns to the next type; the
   fetches touch the cache only and the applications the options only, so
   the handler is modelled as the fetches followed by the applications *)

\* the types whose snapshot is synthesised from random draws
SensitiveTypes == {t \in DOMAIN transport_configs : TrafficSensitive(t)}

\* the draws of one call: for every sensitive type, random.random() < 0.3
\* and random.choice of the weather
Draws == [SensitiveTypes -> [heavy : BOOLEAN, weather : Weathers]]

\* line 192 for the types from the k-th on: the cache, the history of
\* writes and the latest call afterwards, and the snapshot of every type
RECURSIVE FetchEach(_, _, _, _, _, _, _)
FetchEach(types, k, origin, destination, t, draws, acc) ==
    IF k > Len(types) THEN acc
    ELSE LET type == types[k]
             draw == IF type \in SensitiveTypes THEN draws[type]
                     ELSE [heavy |-> FALSE, weather |-> "clear"]
             cache_key == CacheKey(origin, destination, type)
             out == TrafficData(acc.cache, origin, destination, type, t,
                                draw.heavy, draw.weather)
         IN  FetchEach(
                 types, k + 1, origin, destination, t, draws,
                 [cache |-> out.cache,
                  written |->
                      IF out.cache = acc.cache THEN acc.written
                      ELSE Written(acc.written, cache_key, out.ret, t,
                                   origin, destination, type),
                  last_call |->
                      [origin |-> origin, destination |-> destination,
                       transport_type |-> type, at |-> t,
                       prior |-> IF cache_key \in DOMAIN acc.cache
                                 THEN <<acc.cache[cache_key]>>
                                 ELSE <<>>],
                  last_result |-> out.ret,
                  traffic |-> (type :> out.ret) @@ acc.traffic])

\* round(total / n, 1), in 1/10 minute
AverageDelay(total_delays, n) ==
    IF n = 0 THEN 0 ELSE RoundHalfEven(total_delays * 10, n)

\* 'heavy' above 120 minutes of delay in all, 'moderate' above 60
TrafficStatus(total_delays) ==
    IF total_delays > 120 THEN "heavy"
    ELSE IF total_delays > 60 THEN "moderate"
    ELSE "light"

RECURSIVE MaxOf(_)
MaxOf(s) == IF s = <<>> THEN 0 ELSE Max(Head(s), MaxOf(Tail(s)))

_generate_traffic_summary(h, options) ==
    LET delays == List([k \in DOMAIN options |->
                          DictGet(h[options[k]], "traffic_delay_minutes", 0)])
        total_delays == SumSeq(delays)
    IN  [total_routes_checked |-> Len(options),
         routes_with_delays |->
             Cardinality({k \in DOMAIN delays : delays[k] > 0}),
         average_delay_minutes |-> AverageDelay(total_delays, Len(options)),
         max_delay_minutes |-> MaxOf(delays),
         traffic_status |-> TrafficStatus(total_delays)]

\* the body of optimize_route_with_traffic from the snapshots on
TrafficRoute(h, req, traffic) ==
    LET types == ViableTypeList(
                     _calculate_distance(req.origin, req.destination))
        applied == ApplyEach(h, types, 1,
                             [origin |-> req.origin,
                              destination |-> req.destination,
                              traffic |-> traffic],
                             [options |-> <<>>, base_options |-> <<>>])
        ranked == _rank_traffic_enhanced_options(
                      applied.heap, applied.options,
                      GetOr(req.optimize_for, "balanced"))
    IN  [heap |-> ranked.heap,
         ret |-> [status |-> "success",
                  optimization_type |-> "traffic_enhanced_route",
                  origin |-> req.origin,
                  destination |-> req.destination,
                  traffic_considered |-> TRUE,
                  options |-> ranked.ret,
                  base_options |-> applied.base_options,
                  traffic_summary |->
                      _generate_traffic_summary(ranked.heap, ranked.ret)]]

optimize_route_with_traffic ==
    /\ pc = "call"
    /\ op = "optimize_route_with_traffic"
    /\ \E draws \in Draws :
          LET types == ViableTypeList(
                           _calculate_distance(request.origin,
                                               request.destination))
              fetched == FetchEach(types, 1, request.origin,
                                   request.destination, now, draws,
                                   [cache |-> traffic_cache,
                                    written |-> written,
                                    last_call |-> last_call,
                                    last_result |-> last_result,
                                    traffic |-> <<>>])
              out == TrafficRoute(heap, request, fetched.traffic)
          IN  /\ traffic_cache' = fetched.cache
              /\ written' = fetched.written
              /\ last_call' = fetched.last_call
              /\ last_result' = fetched.last_result
              /\ heap' = out.heap
              /\ result' = Try(out.ret,
                               ErrorResult("Traffic optimization failed"))
    /\ pc' = "done"
    /\ UNCHANGED <<searchVars, now, raceVars, op, request>>

-----------------------------------------------------------------------------
(* get_real_time_traffic_data, one call step by step: several callers share
   the agent, and another caller may run between the lookup, the await of the
   synthesis and the write *)

\* callers sharing one agent
NumCallers == 2
Callers == 1..NumCallers

\* transport types the callers ask for
RaceModes == {"bus", "train"}

\* the weather draws of the callers' syntheses
RaceWeathers == {"clear", "rain"}

\* a caller outside a call
IdleCall == [pc |-> "idle"]

\* lines 139-154: the flag, the key and the lookup; a caller that is answered
\* from the cache, or needs no traffic, returns here
traffic_lookup(p, origin, destination, transport_type) ==
    /\ calls[p].pc = "idle"
    /\ LET cache_key == CacheKey(origin, destination, transport_type)
           cached_data == _get_cached_traffic_data(traffic_cache, cache_key,
                                                   now)
           args == [origin |-> origin, destination |-> destination,
                    transport_type |-> transport_type,
                    cache_key |-> cache_key]
       IN  calls' = [calls EXCEPT ![p] =
              IF ~TrafficSensitive(transport_type)
              THEN args @@ [pc |-> "done", hit |-> FALSE,
                            ret |-> NotApplicable(transport_type)]
              ELSE IF cached_data.found
              THEN args @@ [pc |-> "done", hit |-> TRUE,
                            ret |-> cached_data.data]
              ELSE args @@ [pc |-> "simulate", hit |-> FALSE]]
    /\ UNCHANGED <<routeVars, trafficVars, apiVars>>

\* line 157: the synthesis, with its two random draws
traffic_simulate(p) ==
    /\ calls[p].pc = "simulate"
    /\ \E heavy \in BOOLEAN, weather \in RaceWeathers :
          calls' = [calls EXCEPT ![p] =
              [calls[p] EXCEPT !.pc = "store"] @@
              [traffic_data |-> _simulate_traffic_conditions(
                                    calls[p].origin, calls[p].destination,
                                    calls[p].transport_type, now, heavy,
                                    weather)]]
    /\ UNCHANGED <<routeVars, trafficVars, apiVars>>

\* lines 160-163: the write and the return
traffic_store(p) ==
    /\ calls[p].pc = "store"
    /\ traffic_cache' = _cache_traffic_data(traffic_cache, calls[p].cache_key,
                                            calls[p].traffic_data, now)
    /\ written' = Written(written, calls[p].cache_key, calls[p].traffic_data,
                          now, calls[p].origin, calls[p].destination,
                          calls[p].transport_type)
    /\ calls' = [calls EXCEPT ![p] =
          [calls[p] EXCEPT !.pc = "done"] @@ [ret |-> calls[p].traffic_data]]
    /\ UNCHANGED <<now, last_call, last_result>>
    /\ UNCHANGED <<routeVars, apiVars>>

\* the caller took the answer and may call again
traffic_return(p) ==
    /\ calls[p].pc = "done"
    /\ calls' = [calls EXCEPT ![p] = IdleCall]
    /\ UNCHANGED <<routeVars, trafficVars, apiVars>>

-----------------------------------------------------------------------------
(* Specifications *)

\* the requests: a list of at most MaxCities names (the exact regime), or a
\* list of at most MaxRepeated names visited ExactLimit + 1 times over (the
\* heuristic regime, unless start and end filter every entry out)
RequestLists ==
    SeqsUpTo(MaxCities, Names)
        \cup {Repeat(s, ExactLimit + 1) : s \in SeqsUpTo(MaxRepeated, Names)}

\* no call made yet
NoResult == [status |-> "none"]
NoCall == [origin |-> None, destination |-> None, transport_type |-> None,
           at |-> 0, prior |-> <<>>]

SearchIdle ==
    /\ cities = <<>>
    /\ start_city = None
    /\ end_city = None
    /\ optimize_for = "cost"
    /\ all_routes = <<>>
    /\ optimized_routes = <<>>

RouteIdle ==
    /\ SearchIdle
    /\ pc = "idle"
    /\ result = NoResult

TrafficIdle ==
    /\ traffic_cache = <<>>
    /\ now = 0
    /\ last_call = NoCall
    /\ last_result = NoResult
    /\ written = <<>>

RaceIdle == calls = [p \in Callers |-> IdleCall]

\* the operation Spec, TrafficSpec, KeySpec and RaceSpec are about
NoRequest == [none |-> TRUE]
ApiIdle == op = "none" /\ request = NoRequest /\ heap = <<>>

\* one call of optimize_multi_city_route on a request drawn from the bounds
Init ==
    /\ cities \in RequestLists
    /\ start_city \in StartNames
    /\ end_city \in EndNames
    /\ optimize_for \in Objectives
    /\ pc = "call"
    /\ all_routes = <<>>
    /\ optimized_routes = <<>>
    /\ result = NoResult
    /\ TrafficIdle
    /\ RaceIdle
    /\ op = "optimize_multi_city_route"
    /\ request = NoRequest
    /\ heap = <<>>

Next == optimize_multi_city_route

Spec == Init /\ [][Next]_vars

\* places and preferences the single-journey operations are called with
PlaceNames ==
    {"boston", "new york", "chicago", "washington dc", "atlantis", None}
MixRequests ==
    [origin : PlaceNames, destination : PlaceNames,
     optimize_for : Objectives \cup {None}]

MixInit ==
    /\ SearchIdle
    /\ pc = "call"
    /\ result = NoResult
    /\ TrafficIdle
    /\ RaceIdle
    /\ op = "optimize_transport_mix"
    /\ request \in MixRequests
    /\ heap = <<>>

\* a call of optimize_multi_city_route that passes None for the list
NoCitiesInit ==
    /\ SearchIdle
    /\ pc = "call"
    /\ result = NoResult
    /\ TrafficIdle
    /\ RaceIdle
    /\ op = "optimize_multi_city_route"
    /\ request = [cities |-> None]
    /\ heap = <<>>

\* legs an itinerary is timed for: the type, the duration and the layover
\* each given or left out, the type possibly one the catalog lacks
MaxLegs == 2
TypeItems == {<<>>, [transport_type |-> "train"], [transport_type |-> "ferry"]}
DurationItems == {<<>>, [duration_hours |-> 150]}
LayoverItems == {<<>>, [layover_hours |-> 100], [layover_hours |-> 300]}
TimingLegs ==
    {[origin |-> "boston", destination |-> "new york"] @@ t @@ d @@ l :
        t \in TypeItems, d \in DurationItems, l \in LayoverItems}
TimingPreferences ==
    {m @@ d @@ x :
        m \in {<<>>, [min_layover_hours |-> 100]},
        d \in {<<>>, [preferred_departure_time |-> 1400],
                [preferred_departure_time |-> BadClock]},
        x \in {<<>>, [max_daily_travel_hours |-> 300]}}
TimingRequests ==
    {[route_legs |-> legs, preferences |-> p] :
        legs \in SeqsUpTo(MaxLegs, TimingLegs), p \in TimingPreferences}
    \cup {[preferences |-> p] : p \in TimingPreferences}

TimingInit ==
    /\ SearchIdle
    /\ pc = "call"
    /\ result = NoResult
    /\ TrafficIdle
    /\ RaceIdle
    /\ op = "calculate_itinerary_timing"
    /\ request \in TimingRequests
    /\ heap = <<>>

\* legs alternatives are looked for: a resolvable journey or one without an
\* origin, the type given or left out, the cost and the duration as
\* _rank_routes prints them, as floats, or left out
JourneyItems ==
    {[origin |-> "boston", destination |-> "new york"],
     [destination |-> "new york"]}
CostItems == {<<>>, [cost |-> Str(50000)], [cost |-> Num(50000)]}
PrintedItems == {[duration |-> Str(25)], [duration |-> Num(25)]}
AlternativeLegs ==
    {j @@ t @@ c @@ d :
        j \in JourneyItems, t \in {<<>>, [transport_type |-> "bus"]},
        c \in CostItems, d \in PrintedItems}
AlternativeRequests ==
    {[base_route |-> [legs |-> legs]] :
        legs \in SeqsUpTo(MaxLegs, AlternativeLegs)}
    \cup {[base_route |-> <<>>], [preferences |-> <<>>]}

AlternativesInit ==
    /\ SearchIdle
    /\ pc = "call"
    /\ result = NoResult
    /\ TrafficIdle
    /\ RaceIdle
    /\ op = "analyze_route_alternatives"
    /\ request \in AlternativeRequests
    /\ heap = <<>>

\* journeys the traffic operations are called for, and the transport types
\* a snapshot is asked for: "ferry" is a type the catalog lacks
TrafficPlaces == {"boston", "new york", None}
TrafficRouteRequests ==
    [origin : TrafficPlaces, destination : TrafficPlaces,
     optimize_for : Objectives \cup {None}]
TrafficDataRequests ==
    [origin : TrafficPlaces, destination : TrafficPlaces,
     transport_type : {"bus", "train", "ferry", Unhashable}]

TrafficRouteInit ==
    /\ SearchIdle
    /\ pc = "call"
    /\ result = NoResult
    /\ TrafficIdle
    /\ RaceIdle
    /\ op = "optimize_route_with_traffic"
    /\ request \in TrafficRouteRequests
    /\ heap = <<>>

TrafficDataInit ==
    /\ SearchIdle
    /\ pc = "call"
    /\ result = NoResult
    /\ TrafficIdle
    /\ RaceIdle
    /\ op = "get_real_time_traffic_data"
    /\ request \in TrafficDataRequests
    /\ heap = <<>>

\* the operations that read the clock, called at any instant
ClockOps == {"optimize_route_with_traffic", "get_real_time_traffic_data"}

\* one call of one public operation of the route optimizer; the snapshot of
\* one journey and type may be asked for again as the clock runs
ApiInit ==
    \/ Init
    \/ NoCitiesInit
    \/ MixInit
    \/ TimingInit
    \/ AlternativesInit
    \/ TrafficRouteInit
    \/ TrafficDataInit

ApiNext ==
    \/ optimize_multi_city_route
    \/ optimize_transport_mix
    \/ calculate_itinerary_timing
    \/ analyze_route_alternatives
    \/ optimize_route_with_traffic
    \/ /\ op = "get_real_time_traffic_data"
       /\ get_real_time_traffic_data(request.origin, request.destination,
                                     request.transport_type)
    \/ /\ op \in ClockOps
       /\ pc = "call"
       /\ Tick

ApiSpec == ApiInit /\ [][ApiNext]_vars

\* distances a leg is selected for: the limits the code compares a distance
\* with and the distances at most MaxOffset metres away from them, 0, and a
\* distance beyond every limit
MaxOffset == 1
DistanceLimits == {50000, 100000, 200000, 500000, 800000, 1000000, 1200000}
Distances ==
    {0, 2000000}
        \cup {d + e : d \in DistanceLimits, e \in (0 - MaxOffset)..MaxOffset}

SelectRequests ==
    [origin : {"boston"}, destination : {"new york"},
     distance_km : Distances, optimize_for : Objectives]

SelectInit ==
    /\ SearchIdle
    /\ pc = "call"
    /\ result = NoResult
    /\ TrafficIdle
    /\ RaceIdle
    /\ op = "_select_best_transport"
    /\ request \in SelectRequests
    /\ heap = <<>>

SelectNext == SelectLeg

SelectSpec == SelectInit /\ [][SelectNext]_vars

\* names a distance is looked up for: resolvable names in two spellings, a
\* name the coordinate table lacks in two spellings, and None
LookupNames ==
    {"boston", "Boston", "new york", "New York", "chicago", "atlantis",
     "Atlantis", None}

DistanceInit ==
    /\ SearchIdle
    /\ pc = "call"
    /\ result = NoResult
    /\ TrafficIdle
    /\ RaceIdle
    /\ op = "_calculate_distance"
    /\ request \in [city1 : LookupNames, city2 : LookupNames]
    /\ heap = <<>>

DistanceNext == MeasureDistance

DistanceSpec == DistanceInit /\ [][DistanceNext]_vars

\* totals a route is scored for: 0, the value a score is normalised by
\* (1000 dollars, 48 hours, 1000 kg), the values at most MaxOffset away from
\* these, and a value in between
CostTotals ==
    {t \in (0..MaxOffset) \cup {50000}
            \cup {100000 + e : e \in (0 - MaxOffset)..MaxOffset} : t >= 0}
TimeTotals ==
    (0..MaxOffset) \cup {2400}
        \cup {4800 + e : e \in (0 - MaxOffset)..MaxOffset}
ScoreRequests ==
    [cost : CostTotals, duration_hours : TimeTotals, carbon : CostTotals]

ScoreInit ==
    /\ SearchIdle
    /\ pc = "call"
    /\ result = NoResult
    /\ TrafficIdle
    /\ RaceIdle
    /\ op = "_calculate_efficiency_score"
    /\ request \in ScoreRequests
    /\ heap = <<>>

ScoreNext == ScoreRoute

ScoreSpec == ScoreInit /\ [][ScoreNext]_vars

\* journeys whose options are adjusted, the instants their snapshots are
\* synthesised at (06:50 and 07:00 when the agent is built at 06:50), and
\* the snapshots a type can be given: what get_real_time_traffic_data can
\* return for it
AdjustRoutes ==
    {<<"boston", "new york">>, <<"boston", "atlantis">>,
     <<"boston", "boston">>}
SnapshotTimes == {0, 10}
SnapshotsFor(origin, destination, type) ==
    IF TrafficSensitive(type)
    THEN {_simulate_traffic_conditions(origin, destination, type, t, heavy,
                                       weather) :
              t \in SnapshotTimes, heavy \in BOOLEAN, weather \in Weathers}
         \cup {FetchError}
    ELSE {NotApplicable(type), FetchError}

AdjustRequestsOf(r) ==
    LET types == ViableTypeList(_calculate_distance(r[1], r[2]))
        Of(t) == SnapshotsFor(r[1], r[2], t)
        kinds == {types[i] : i \in DOMAIN types}
    IN  {[origin |-> r[1], destination |-> r[2], optimize_for |-> c,
          traffic |-> f] :
            c \in Objectives,
            f \in {g \in [kinds -> UNION {Of(t) : t \in kinds}] :
                       \A t \in kinds : g[t] \in Of(t)}}

AdjustInit ==
    /\ SearchIdle
    /\ pc = "call"
    /\ result = NoResult
    /\ TrafficIdle
    /\ RaceIdle
    /\ op = "_apply_traffic_to_option"
    /\ request \in UNION {AdjustRequestsOf(r) : r \in AdjustRoutes}
    /\ heap = <<>>

AdjustNext == ApplyTraffic \/ RankEnhanced

AdjustSpec == AdjustInit /\ [][AdjustNext]_vars

\* the agent as built, traffic asked for as the clock runs
TrafficInit == RouteIdle /\ TrafficIdle /\ RaceIdle /\ ApiIdle

TrafficNext ==
    \/ \E r \in TrafficRoutes, t \in TrafficModes :
          get_real_time_traffic_data(r[1], r[2], t)
    \/ Tick

TrafficSpec == TrafficInit /\ [][TrafficNext]_vars

\* traffic asked for between places whose names hold the separator of the key
KeyRoutes == {<<"san", "jose_ca">>, <<"san_jose", "ca">>}

\* transport types it is asked for there
KeyModes == {"bus", "train"}

KeyNext ==
    \/ \E r \in KeyRoutes, t \in KeyModes :
          get_real_time_traffic_data(r[1], r[2], t)
    \/ Tick

KeySpec == TrafficInit /\ [][KeyNext]_vars

\* the agent as built, shared by callers whose calls interleave
RaceInit == RouteIdle /\ TrafficIdle /\ RaceIdle /\ ApiIdle

RaceNext ==
    \/ \E p \in Callers, r \in TrafficRoutes, t \in RaceModes :
          traffic_lookup(p, r[1], r[2], t)
    \/ \E p \in Callers : traffic_simulate(p)
    \/ \E p \in Callers : traffic_store(p)
    \/ \E p \in Callers : traffic_return(p)
    \/ Tick

RaceSpec == RaceInit /\ [][RaceNext]_vars

-----------------------------------------------------------------------------
(* Properties of optimize_multi_city_route *)

\* the request's end city with the default applied, and its intermediates
RequestEnd == EndOrStart(start_city, end_city)
RequestIntermediates == IntermediateCities(cities, start_city, RequestEnd)
ExactRegime == Len(RequestIntermediates) <= ExactLimit

\* occurrences of x in s
Count(s, x) == Cardinality({i \in DOMAIN s : s[i] = x})

\* C1: in every route the call built and in every route it returned, the
\* destination of each leg is the origin of the next leg
C1_LegsChained ==
    pc = "done" =>
        /\ \A r \in DOMAIN optimized_routes :
              \A i \in 1..(Len(optimized_routes[r].legs) - 1) :
                  optimized_routes[r].legs[i].destination
                      = optimized_routes[r].legs[i + 1].origin
        /\ \A r \in DOMAIN result.routes :
              \A i \in 1..(Len(result.routes[r].legs) - 1) :
                  result.routes[r].legs[i].destination
                      = result.routes[r].legs[i + 1].origin

\* a heuristic route of at least ten legs was returned
C1_Witness ==
    /\ pc = "done"
    /\ ~ExactRegime
    /\ Len(result.routes) = 1
    /\ Len(result.routes[1].legs) >= 10

\* C2 as stated: the first leg leaves the start city, every intermediate
\* city is the destination of exactly one leg, and the last leg arrives at
\* the end city, which is the start city when no end city is given (a route
\* without legs is read as satisfying it)
C2_Original ==
    pc = "done" =>
        \A r \in DOMAIN optimized_routes :
            LET legs == optimized_routes[r].legs
            IN  legs # <<>> =>
                    /\ legs[1].origin = start_city
                    /\ \A k \in DOMAIN RequestIntermediates :
                          Cardinality({i \in DOMAIN legs :
                              legs[i].destination = RequestIntermediates[k]})
                              = 1
                    /\ legs[Len(legs)].destination = RequestEnd

\* C2 amended: the first leg (if any) leaves the start city; the leg
\* destinations are the intermediate entries, each as often as the list
\* holds it, followed by the end city only when it differs from the start
\* city; with end = start (or no end given) the route ends at the last
\* intermediate stop, and has no leg when there is none
C2_RouteCoversStops ==
    pc = "done" =>
        \A r \in DOMAIN optimized_routes :
            LET legs == optimized_routes[r].legs
                n == Len(RequestIntermediates)
            IN  /\ Len(legs) = n + (IF RequestEnd # start_city THEN 1 ELSE 0)
                /\ legs # <<>> => legs[1].origin = start_city
                /\ \A name \in Names :
                      Cardinality({i \in 1..n : legs[i].destination = name})
                          = Count(RequestIntermediates, name)
                /\ RequestEnd # start_city
                      => legs[Len(legs)].destination = RequestEnd

\* no end city given, stops requested: the route ends at a stop, not at the
\* start city
C2_Witness ==
    /\ pc = "done"
    /\ end_city = None
    /\ Len(RequestIntermediates) >= 2
    /\ \A r \in DOMAIN optimized_routes :
          LET legs == optimized_routes[r].legs
          IN  /\ Len(legs) = Len(RequestIntermediates)
              /\ legs[Len(legs)].destination # start_city

\* C3: the three totals of every built route are the sums of its legs'
\* values; a route without legs has all three totals 0
C3_TotalsAreSums ==
    pc = "done" =>
        \A r \in DOMAIN optimized_routes :
            LET route == optimized_routes[r]
                legs == route.legs
            IN  /\ route.total_cost
                      = SumSeq([i \in DOMAIN legs |-> legs[i].cost])
                /\ route.total_duration_hours
                      = SumSeq([i \in DOMAIN legs |-> legs[i].duration_hours])
                /\ route.total_carbon_footprint
                      = SumSeq([i \in DOMAIN legs |-> legs[i].carbon_footprint])
                /\ legs = <<>> =>
                      /\ route.total_cost = 0
                      /\ route.total_duration_hours = 0
                      /\ route.total_carbon_footprint = 0

\* an exact-regime route of three legs, all of positive cost and not all of
\* the same cost, was built
C3_Witness ==
    /\ pc = "done"
    /\ ExactRegime
    /\ \E r \in DOMAIN optimized_routes :
          LET legs == optimized_routes[r].legs
          IN  /\ Len(legs) = 3
              /\ \A i \in 1..3 : legs[i].cost > 0
              /\ legs[1].cost < legs[3].cost
              /\ legs[2].carbon_footprint > 0
              /\ optimized_routes[r].total_cost > legs[3].cost

\* the aggregate a named objective ranks by; an objective that names none
\* of cost, time and carbon ranks by the efficiency score, higher first
NotWorse(a, b) ==
    CASE optimize_for = "cost" -> a.total_cost <= b.total_cost
      [] optimize_for = "time" ->
             a.total_duration_hours <= b.total_duration_hours
      [] optimize_for = "carbon" ->
             a.total_carbon_footprint <= b.total_carbon_footprint
      [] OTHER -> a.efficiency_score >= b.efficiency_score

\* the single route the heuristic builds on the request of the state
HeuristicRoute ==
    _optimize_large_route(start_city, RequestIntermediates, RequestEnd,
                          optimize_for)[1]

\* C4: in the exact regime the rank-1 route is never worse, on the aggregate
\* of the requested objective, than the nearest-neighbour route built from
\* the same start, intermediates, end and preferences
C4_ExactNotWorseThanHeuristic ==
    (pc = "done" /\ ExactRegime) =>
        NotWorse(optimized_routes[1], HeuristicRoute)

\* a request with three stops on which the nearest-neighbour route is
\* strictly worse than the rank-1 route of the exact search
C4_Witness ==
    /\ pc = "done"
    /\ ExactRegime
    /\ Len(RequestIntermediates) = 3
    /\ ~NotWorse(HeuristicRoute, optimized_routes[1])

\* the bijections of 1..n, as a set
Orders(n) == {f \in [1..n -> 1..n] : \A i, j \in 1..n : f[i] = f[j] => i = j}

\* the cheapest cost among the modes viable for a leg
CheapestLegCost(origin, destination) ==
    LET distance_km == _calculate_distance(origin, destination)
        viable == {t \in DOMAIN transport_configs :
                      _is_transport_viable(t, distance_km)}
        costs == {_calculate_transport_option(t, origin, destination,
                                              distance_km).cost : t \in viable}
    IN  CHOOSE c \in costs : \A d \in costs : c <= d

\* the total cost of visiting the intermediates in the order f
OrderCost(f) ==
    LET n == Len(RequestIntermediates)
        stops == [i \in 1..n |-> RequestIntermediates[f[i]]]
        tour == IF RequestEnd # start_city
                THEN <<start_city>> \o stops \o <<RequestEnd>>
                ELSE <<start_city>> \o stops
    IN  SumSeq([i \in 1..(Len(tour) - 1) |->
                  CheapestLegCost(tour[i], tour[i + 1])])

\* C5: with objective cost, in the exact regime, the total cost of the
\* rank-1 route is the least total cost over all visiting orders of the
\* intermediates, each leg taken by its cheapest viable mode
C5_CostMatchesBruteForce ==
    (pc = "done" /\ ExactRegime /\ optimize_for = "cost") =>
        LET n == Len(RequestIntermediates)
        IN  /\ \A f \in Orders(n) : result.routes[1].total_cost <= OrderCost(f)
            /\ \E f \in Orders(n) : result.routes[1].total_cost = OrderCost(f)

\* objective cost, three stops, and visiting orders of different total cost
C5_Witness ==
    /\ pc = "done"
    /\ optimize_for = "cost"
    /\ Len(RequestIntermediates) = 3
    /\ Len(optimized_routes) = 6
    /\ optimized_routes[1].total_cost < optimized_routes[6].total_cost
    /\ \E r \in DOMAIN all_routes :
          all_routes[1].total_cost > all_routes[r].total_cost

\* the routes of s whose aggregate for the objective equals that of route
SameKey(s, route) ==
    SelectSeq(s, LAMBDA x : NotWorse(x, route) /\ NotWorse(route, x))

\* C6: the ranking is ascending in total cost for cost, in total duration
\* for time, in total carbon for carbon, and descending in efficiency score
\* for balanced; candidates of equal key keep their enumeration order
C6_RankingOrder ==
    (pc = "done" /\ optimize_for \in {"cost", "time", "carbon", "balanced"}) =>
        /\ \A i, j \in DOMAIN optimized_routes :
              i < j =>
                  CASE optimize_for = "cost" ->
                         optimized_routes[i].total_cost
                             <= optimized_routes[j].total_cost
                    [] optimize_for = "time" ->
                         optimized_routes[i].total_duration_hours
                             <= optimized_routes[j].total_duration_hours
                    [] optimize_for = "carbon" ->
                         optimized_routes[i].total_carbon_footprint
                             <= optimized_routes[j].total_carbon_footprint
                    [] optimize_for = "balanced" ->
                         optimized_routes[i].efficiency_score
                             >= optimized_routes[j].efficiency_score
        /\ Len(optimized_routes) = Len(all_routes)
        /\ \A r \in DOMAIN all_routes :
              SameKey(optimized_routes, all_routes[r])
                  = SameKey(all_routes, all_routes[r])

\* a balanced ranking that moved a candidate to the front and kept two
\* different candidates of equal score in their enumeration order
C6_Witness ==
    /\ pc = "done"
    /\ optimize_for = "balanced"
    /\ optimized_routes[1] # all_routes[1]
    /\ optimized_routes[1].efficiency_score
           > optimized_routes[Len(optimized_routes)].efficiency_score
    /\ \E i \in DOMAIN optimized_routes :
          /\ i < Len(optimized_routes)
          /\ optimized_routes[i] # optimized_routes[i + 1]
          /\ optimized_routes[i].efficiency_score
                 = optimized_routes[i + 1].efficiency_score

\* C7: a successful result holds at most five routes, the first routes of
\* the full ranking, ranked 1, 2, ..., k in list order
C7_TopFiveRanked ==
    (pc = "done" /\ result.status = "success") =>
        /\ Len(result.routes) <= 5
        /\ Len(result.routes)
               = (IF Len(optimized_routes) < 5 THEN Len(optimized_routes) ELSE 5)
        /\ \A i \in DOMAIN result.routes :
              /\ result.routes[i].rank = i
              /\ result.routes[i] = RouteDict(optimized_routes[i], i)

\* six candidates were ranked and five returned
C7_Witness ==
    /\ pc = "done"
    /\ result.status = "success"
    /\ Len(optimized_routes) = 6
    /\ Len(result.routes) = 5
    /\ result.routes[5].rank = 5

-----------------------------------------------------------------------------
(* Properties of get_real_time_traffic_data *)

\* the cache key of the latest call
LastKey ==
    CacheKey(last_call.origin, last_call.destination, last_call.transport_type)

\* the latest call found an entry stored less than 15 minutes before it
LastCallWithinTTL ==
    /\ last_call.prior # <<>>
    /\ last_call.at - last_call.prior[1].timestamp < 15

\* C8: a call for a traffic-sensitive mode made less than 15 minutes after
\* the snapshot of its key was stored returns that stored snapshot, creation
\* timestamp included, and leaves the entry as it was; a call made when no
\* entry is stored or 15 minutes or more have passed returns a snapshot
\* created at the call, different from the expired one, and stores it
C8_SnapshotServedWithinTTL ==
    last_call.transport_type \in {"bus", "car_rental"} =>
        IF LastCallWithinTTL
        THEN /\ last_result = last_call.prior[1].data
             /\ last_result.timestamp = last_call.prior[1].data.timestamp
             /\ traffic_cache[LastKey] = last_call.prior[1]
        ELSE /\ last_result.timestamp = last_call.at
             /\ last_call.prior # <<>> =>
                   /\ last_result # last_call.prior[1].data
                   /\ last_result.timestamp
                          # last_call.prior[1].data.timestamp
             /\ LastKey \in DOMAIN traffic_cache
             /\ traffic_cache[LastKey]
                    = [data |-> last_result, timestamp |-> last_call.at]

\* a call made exactly 15 minutes after the snapshot of its key was stored
C8_Witness ==
    /\ last_call.transport_type \in {"bus", "car_rental"}
    /\ last_call.prior # <<>>
    /\ last_call.at - last_call.prior[1].timestamp = 15
    /\ last_result.timestamp = last_call.at

\* C9: a call for flight or train returns delay_minutes 0 and conditions
\* 'not_applicable', at every hour, for every draw and every cache content
C9_NonSensitiveNoDelay ==
    last_call.transport_type \in {"flight", "train"} =>
        /\ last_result.status = "success"
        /\ last_result.delay_minutes = 0
        /\ last_result.conditions = "not_applicable"

\* a flight asked for at a peak hour while the cache holds a delayed snapshot
C9_Witness ==
    /\ last_call.transport_type = "flight"
    /\ Hour(last_call.at) \in peak_hours
    /\ \E k \in DOMAIN traffic_cache : traffic_cache[k].data.delay_minutes > 0
    /\ last_result.delay_minutes = 0

\* C10: a call for flight or train leaves the traffic cache as it was
C10_NonSensitiveLeavesCache ==
    [][(last_call' # last_call
        /\ last_call'.transport_type \in {"flight", "train"})
           => traffic_cache' = traffic_cache]_vars

\* a train asked for after both traffic-sensitive keys were cached; the call
\* found no entry under its own key and the cache holds none for it
C10_Witness ==
    /\ last_call.transport_type = "train"
    /\ last_call.at > 0
    /\ last_call.prior = <<>>
    /\ Cardinality(DOMAIN traffic_cache) = 2
    /\ LastKey \notin DOMAIN traffic_cache

\* C13: a request with no cities, no start city and no end city is answered
\* with an error result, not with a success result that holds a route
\* without legs
C13_EmptyRequestIsError ==
    (pc = "done" /\ cities = <<>> /\ start_city = None /\ end_city = None)
        => /\ result.status = "error"
           /\ \A r \in DOMAIN optimized_routes :
                 optimized_routes[r].legs # <<>>

-----------------------------------------------------------------------------
(* Properties of the objective *)

NamedObjectives == {"cost", "time", "carbon", "balanced"}

\* cost + 10 * duration + 100 * carbon, in 1/100
Weighted(o) == o.cost + 10 * o.duration_hours + 100 * o.carbon_footprint

\* the leg was given a mode whose weighted sum no viable mode undercuts
LegIsBalancedChoice(leg) ==
    LET distance_km == _calculate_distance(leg.origin, leg.destination)
    IN  \A i \in DOMAIN TransportTypes :
            _is_transport_viable(TransportTypes[i], distance_km)
                => Weighted(leg)
                       <= Weighted(_calculate_transport_option(
                              TransportTypes[i], leg.origin, leg.destination,
                              distance_km))

\* C14: an objective that is none of cost, time, carbon and balanced gives no
\* error: optimize_multi_city_route succeeds, every leg has a mode of least
\* weighted sum among the viable ones and the routes are in descending
\* order of efficiency score; optimize_transport_mix fails only for distance
\* 0 and returns what it returns for balanced, options in ascending order of
\* weighted sum
C14_UnknownObjectiveIsBalanced ==
    /\ (pc = "done" /\ op = "optimize_multi_city_route"
            /\ optimize_for \notin NamedObjectives)
        => /\ result.status = "success"
           /\ result.criteria = optimize_for
           /\ \A r \in DOMAIN optimized_routes :
                 \A k \in DOMAIN optimized_routes[r].legs :
                     LegIsBalancedChoice(optimized_routes[r].legs[k])
           /\ \A r \in 1..(Len(optimized_routes) - 1) :
                 optimized_routes[r].efficiency_score
                     >= optimized_routes[r + 1].efficiency_score
    /\ (pc = "done" /\ op = "optimize_transport_mix"
            /\ request.optimize_for \notin NamedObjectives)
        => /\ result = TransportMix(request.origin, request.destination,
                                    "balanced")
           /\ _calculate_distance(request.origin, request.destination) # 0
                 => /\ result.status = "success"
                    /\ \A i \in 1..(Len(result.options) - 1) :
                          Weighted(result.options[i])
                              <= Weighted(result.options[i + 1])

\* optimize_transport_mix ranked by an objective the code does not name, on a
\* journey whose balanced order is neither its cost order nor its time order
C14_Witness ==
    /\ pc = "done" /\ op = "optimize_transport_mix"
    /\ request.optimize_for = "cheapest"
    /\ result.status = "success"
    /\ Len(result.options) >= 3
    /\ \E i \in 1..(Len(result.options) - 1) :
          result.options[i].cost > result.options[i + 1].cost
    /\ \E i \in 1..(Len(result.options) - 1) :
          result.options[i].duration_hours
              > result.options[i + 1].duration_hours

-----------------------------------------------------------------------------
(* Properties of the mode selection *)

\* the catalog's types that pass _is_transport_viable at a distance
ViableTypes(distance_km) ==
    {TransportTypes[i] : i \in
        {j \in DOMAIN TransportTypes :
            _is_transport_viable(TransportTypes[j], distance_km)}}

\* the metric an objective names
Metric(o, criteria) ==
    CASE criteria = "cost" -> o.cost
      [] criteria = "time" -> o.duration_hours
      [] criteria = "carbon" -> o.carbon_footprint

\* C16: for cost, time and carbon the selected mode is viable at the leg's
\* distance and no viable mode has a smaller value of the metric; at exactly
\* 50 km the viable modes are bus and car rental only (the flight needs more
\* than 100 km, the train more than 50 km), and cost selects the cheaper one
C16_SelectedModeIsViableMinimum ==
    (pc = "done" /\ op = "_select_best_transport"
        /\ request.optimize_for \in {"cost", "time", "carbon"})
    => /\ result.type \in ViableTypes(request.distance_km)
       /\ \A t \in ViableTypes(request.distance_km) :
             Metric(result, request.optimize_for)
                 <= Metric(_calculate_transport_option(
                               t, request.origin, request.destination,
                               request.distance_km),
                           request.optimize_for)
       /\ "flight" \in ViableTypes(request.distance_km)
             <=> request.distance_km > 100000
       /\ request.distance_km = 50000
             => /\ ViableTypes(request.distance_km) = {"bus", "car_rental"}
                /\ request.optimize_for = "cost"
                      => /\ result.type = "bus"
                         /\ result.cost = 250

\* a leg of exactly 50 km selected for cost
C16_Witness ==
    /\ pc = "done" /\ op = "_select_best_transport"
    /\ request.distance_km = 50000
    /\ request.optimize_for = "cost"
    /\ result.type = "bus"

-----------------------------------------------------------------------------
(* Properties of the traffic cache's key *)

\* the latest call was answered from the cache
LastCallHit ==
    /\ last_call.transport_type # None
    /\ TrafficSensitive(last_call.transport_type)
    /\ LastCallWithinTTL

\* C12: a call answered from the cache gets a snapshot that was written by a
\* call with the same origin, destination and transport type
C12_KeyedByTriple ==
    LastCallHit =>
        /\ last_result = written[LastKey].data
        /\ written[LastKey].origin = last_call.origin
        /\ written[LastKey].destination = last_call.destination
        /\ written[LastKey].transport_type = last_call.transport_type

-----------------------------------------------------------------------------
(* Properties of the adjustment of options by snapshots *)

Adjusted == op = "_apply_traffic_to_option" /\ pc \in {"applied", "done"}

\* the base option of the request's journey for a type, as the loop builds it
BaseOf(type) ==
    _calculate_transport_option(
        type, request.origin, request.destination,
        _calculate_distance(request.origin, request.destination))

\* the types of the request's journey, and the returned option of a type
AdjustedTypes == DOMAIN request.traffic
EnhancedOf(type) ==
    heap[CHOOSE id \in {result.options[i] : i \in DOMAIN result.options} :
             heap[id].type = type]

\* C18: the dict passed in as base option is left as it was built and is
\* not the dict returned; the returned option has the base cost, duration
\* and carbon under their own names, and after a successful snapshot the
\* adjusted values under three names of their own
C18_BaseMetricsKept ==
    Adjusted =>
        /\ Len(result.options) = Cardinality(AdjustedTypes)
        /\ \A k \in DOMAIN result.base_options :
              /\ heap[result.base_options[k]]
                     = BaseOf(heap[result.base_options[k]].type)
              /\ \A i \in DOMAIN result.options :
                    result.options[i] # result.base_options[k]
        /\ \A t \in AdjustedTypes :
              /\ EnhancedOf(t).cost = BaseOf(t).cost
              /\ EnhancedOf(t).duration_hours = BaseOf(t).duration_hours
              /\ EnhancedOf(t).carbon_footprint = BaseOf(t).carbon_footprint
              /\ request.traffic[t].status = "success"
                    => {"traffic_adjusted_cost", "real_time_duration_hours",
                        "traffic_adjusted_carbon"}
                           \subseteq DOMAIN EnhancedOf(t)

\* a car whose adjusted cost, duration and carbon all differ from its base
\* values
C18_Witness ==
    /\ Adjusted
    /\ "car_rental" \in AdjustedTypes
    /\ request.traffic["car_rental"].status = "success"
    /\ EnhancedOf("car_rental").traffic_adjusted_cost
           > 10 * EnhancedOf("car_rental").cost
    /\ EnhancedOf("car_rental").traffic_adjusted_carbon
           > 6 * EnhancedOf("car_rental").carbon_footprint
    /\ EnhancedOf("car_rental").real_time_duration_hours
           > 6 * EnhancedOf("car_rental").duration_hours

\* C19: after a successful snapshot with a delay of D minutes, the real-time
\* duration is the base duration plus D/60 hours; the adjusted cost is the
\* base cost plus 10% when D > 30 and the base cost when D <= 30; the
\* adjusted carbon is the base carbon plus 2.5 kg per hour of delay for a
\* car and the base carbon for every other type
C19_AdjustedMetrics ==
    Adjusted =>
        \A t \in AdjustedTypes :
            request.traffic[t].status = "success" =>
                LET D == request.traffic[t].delay_minutes
                    e == EnhancedOf(t)
                    b == BaseOf(t)
                IN  /\ e.traffic_delay_minutes = D
                    /\ e.real_time_duration_hours
                           = 6 * b.duration_hours + 10 * D
                    /\ D > 30 => 100 * e.traffic_adjusted_cost
                                     = 110 * (10 * b.cost)
                    /\ D <= 30 => e.traffic_adjusted_cost = 10 * b.cost
                    /\ t = "car_rental"
                          => e.traffic_adjusted_carbon
                                 = 6 * b.carbon_footprint + 25 * D
                    /\ t # "car_rental"
                          => e.traffic_adjusted_carbon = 6 * b.carbon_footprint

\* a car delayed by exactly 30 minutes next to a bus delayed by more
C19_Witness ==
    /\ Adjusted
    /\ {"car_rental", "bus"} \subseteq AdjustedTypes
    /\ request.traffic["car_rental"].status = "success"
    /\ request.traffic["car_rental"].delay_minutes = 30
    /\ EnhancedOf("car_rental").traffic_adjusted_cost
           = 10 * EnhancedOf("car_rental").cost
    /\ EnhancedOf("car_rental").cost > 0
    /\ request.traffic["bus"].status = "success"
    /\ request.traffic["bus"].delay_minutes > 30
    /\ EnhancedOf("bus").traffic_adjusted_carbon
           = 6 * EnhancedOf("bus").carbon_footprint

-----------------------------------------------------------------------------
(* Properties of interleaved get_real_time_traffic_data calls *)

\* C11: whatever the interleaving of the callers, the cache holds under every
\* key that was written exactly the snapshot written last, whole and stamped
\* with the time of that write, and a lookup answered from the cache returns
\* that snapshot while it is younger than cache_expiry_minutes
C11_LastWriterWins ==
    /\ [](\A k \in DOMAIN written :
            /\ k \in DOMAIN traffic_cache
            /\ traffic_cache[k] = [data |-> written[k].data,
                                   timestamp |-> written[k].at])
    /\ [][\A p \in Callers :
            (calls[p].pc = "idle" /\ calls'[p].pc = "done" /\ calls'[p].hit)
                => /\ calls'[p].ret = written[calls'[p].cache_key].data
                   /\ now - written[calls'[p].cache_key].at
                          < cache_expiry_minutes]_vars
    /\ [][\A p \in Callers :
            (/\ calls[p].pc = "idle" /\ calls'[p].pc # "idle"
             /\ TrafficSensitive(calls'[p].transport_type)
             /\ calls'[p].cache_key \in DOMAIN written
             /\ now - written[calls'[p].cache_key].at < cache_expiry_minutes)
                => calls'[p].hit]_vars

\* two callers missed the same key, synthesised at the same instant (so
\* neither lookup came after the other's write), both wrote, and the
\* snapshots they wrote differ: the cache holds the one written last
C11_Witness ==
    /\ calls[1].pc = "done" /\ calls[2].pc = "done"
    /\ ~calls[1].hit /\ ~calls[2].hit
    /\ TrafficSensitive(calls[1].transport_type)
    /\ calls[1].cache_key = calls[2].cache_key
    /\ calls[1].ret.timestamp = calls[2].ret.timestamp
    /\ calls[1].ret # calls[2].ret
    /\ traffic_cache[calls[1].cache_key].data = calls[2].ret

-----------------------------------------------------------------------------
(* C17 *)

\* the two tags of a result
Tags == {"success", "error"}

\* what a call produced is a dict tagged 'success' or 'error'
Tagged(outcome) ==
    /\ ~Raised(outcome)
    /\ "status" \in DOMAIN outcome
    /\ outcome.status \in Tags

\* C17: every public operation ends by returning a result tagged 'success'
\* or 'error', whatever it was called with: an empty leg list, None for a
\* list or a city name, a type that cannot be hashed; no exception reaches
\* the caller
C17_EveryCallReturnsTagged ==
    /\ pc = "done" => Tagged(result)
    /\ (op = "get_real_time_traffic_data" /\ last_call # NoCall)
           => Tagged(last_result)

\* an exception was raised inside an operation and the caller got an error
\* result: the timing of an empty leg list
C17_Witness ==
    /\ pc = "done"
    /\ op = "calculate_itinerary_timing"
    /\ "route_legs" \in DOMAIN request
    /\ request.route_legs = <<>>
    /\ result.status = "error"

-----------------------------------------------------------------------------
(* C21, C22, C27: the schedule of calculate_itinerary_timing *)

Min(a, b) == IF a <= b THEN a ELSE b

\* a schedule was returned for the request
Scheduled ==
    /\ pc = "done"
    /\ op = "calculate_itinerary_timing"
    /\ result.status = "success"

\* the preferences of the timing request, and what they configure
TimingPrefs == DictGet(request, "preferences", <<>>)
RequestedStart ==
    DictGet(TimingPrefs, "preferred_departure_time", DefaultDeparture)
MinimumLayover == DictGet(TimingPrefs, "min_layover_hours", DefaultMinLayover)

\* the time between the arrival of timed leg i and the next departure
Gap(i) ==
    result.legs[i + 1].departure_datetime - result.legs[i].arrival_datetime

\* C21: leg 1 departs at the requested start time; a leg of a catalog mode
\* arrives at departure + duration + the mode's setup time; every next leg
\* departs at the arrival plus the larger of the minimum layover and the
\* leg's own layover, so never sooner than the minimum layover
C21_ScheduleChained ==
    Scheduled =>
        /\ Len(result.legs) = Len(request.route_legs)
        /\ result.legs[1].departure_datetime = RequestedStart
        /\ \A i \in DOMAIN result.legs :
              LET leg == request.route_legs[i]
                  timed == result.legs[i]
              IN  /\ timed.arrival_datetime >= timed.departure_datetime
                                                  + timed.duration_hours
                  /\ ("transport_type" \in DOMAIN leg
                        /\ leg.transport_type \in DOMAIN transport_configs)
                     => timed.arrival_datetime
                          = timed.departure_datetime + timed.duration_hours
                            + transport_configs[leg.transport_type]
                                  .setup_time_hours
        /\ \A i \in 1..(Len(result.legs) - 1) :
              LET leg == request.route_legs[i]
                  own == IF "layover_hours" \in DOMAIN leg
                         THEN leg.layover_hours ELSE MinimumLayover
              IN  /\ Gap(i) = (IF own > MinimumLayover THEN own
                               ELSE MinimumLayover)
                  /\ Gap(i) >= MinimumLayover

\* a schedule of two train legs asked to start at 14:00, the first leg's own
\* layover of 1 hour below the default minimum of 2 hours
C21_Witness ==
    /\ Scheduled
    /\ Len(result.legs) = 2
    /\ RequestedStart = 1400
    /\ MinimumLayover = DefaultMinLayover
    /\ "layover_hours" \in DOMAIN request.route_legs[1]
    /\ request.route_legs[1].layover_hours < MinimumLayover
    /\ "transport_type" \in DOMAIN request.route_legs[1]
    /\ request.route_legs[1].transport_type = "train"
    /\ Gap(1) = DefaultMinLayover

\* the part of the travel of timed leg i that falls on day d, a day being
\* 2400 of the 1/100 hours
TravelOn(i, d) ==
    LET from == result.legs[i].departure_datetime
        to == from + result.legs[i].duration_hours
        a == Max(from, d * 2400)
        b == Min(to, (d + 1) * 2400)
    IN  Max(0, b - a)

\* the days the schedule touches
ScheduleDays ==
    0..(result.legs[Len(result.legs)].arrival_datetime \div 2400)

\* C22: the travel hours scheduled within any single day never exceed the
\* configured max_daily_travel_hours (12 hours when not configured)
C22_DailyLimitHonoured ==
    Scheduled =>
        \A d \in ScheduleDays :
            SumSeq([i \in DOMAIN result.legs |-> TravelOn(i, d)])
                <= DictGet(TimingPrefs, "max_daily_travel_hours", 1200)

\* C27: layover_time_hours of a timed leg is the time between its arrival
\* and the next departure, 0 for the last leg, and total_layover_hours is
\* the sum of these gaps
C27_LayoverIsTheGap ==
    Scheduled =>
        LET n == Len(result.legs)
        IN  /\ \A i \in 1..(n - 1) :
                  result.legs[i].layover_time_hours = Gap(i)
            /\ result.legs[n].layover_time_hours = 0
            /\ result.summary.total_layover_hours
                   = SumSeq([i \in 1..(n - 1) |-> Gap(i)])

-----------------------------------------------------------------------------
(* C23: the efficiency score *)

\* the score 100 in the unit of the model
FullScore == 100 * 2400000

\* C23: the score of non-negative totals lies between 0 and 100, is 100 only
\* when the three totals are 0, and is not larger for totals of which one is
\* larger and the others are the same
C23_ScoreBoundedAndMonotone ==
    (pc = "done" /\ op = "_calculate_efficiency_score") =>
        /\ result.efficiency >= 0
        /\ result.efficiency <= FullScore
        /\ result.efficiency = FullScore
              => (request.cost = 0 /\ request.duration_hours = 0
                    /\ request.carbon = 0)
        /\ \A r \in ScoreRequests :
              (/\ r.cost >= request.cost
               /\ r.duration_hours >= request.duration_hours
               /\ r.carbon >= request.carbon
               /\ Cardinality({f \in {"cost", "duration_hours", "carbon"} :
                                  r[f] # request[f]}) = 1)
              => _calculate_efficiency_score(r.cost, r.duration_hours,
                                             r.carbon) <= result.efficiency

\* totals beyond what the scores are normalised by: every score is cut off
\* at 0 and the efficiency is 0
C23_Witness ==
    /\ pc = "done" /\ op = "_calculate_efficiency_score"
    /\ request.cost > 100000
    /\ request.duration_hours > 4800
    /\ request.carbon > 100000
    /\ result.efficiency = 0

-----------------------------------------------------------------------------
(* C24: the distance lookup *)

\* the spellings of the names the coordinate table holds
Resolvable == {"boston", "Boston", "new york", "New York", "chicago"}

\* C24: the lookup returns a distance that is not negative for every pair of
\* names; it is the default of 500 km when either name is not in the table
\* in any spelling, also when the two names are the same; the spelling of a
\* name the table holds makes no difference
C24_DistanceDefaults ==
    (pc = "done" /\ op = "_calculate_distance") =>
        /\ result.status = "measured"
        /\ result.distance_km >= 0
        /\ (request.city1 \notin Resolvable \/ request.city2 \notin Resolvable)
              => result.distance_km = 500000
        /\ (request.city1 \in {"boston", "Boston"}
              /\ request.city2 \in {"new york", "New York"})
              => result.distance_km = 306108

\* the distance from a name the table lacks to the same name
C24_Witness ==
    /\ pc = "done" /\ op = "_calculate_distance"
    /\ request.city1 = "atlantis"
    /\ request.city2 = "atlantis"
    /\ result.distance_km = 500000

-----------------------------------------------------------------------------
(* C28: some mode is viable at every distance *)

\* C28: at every distance at least one catalog mode is viable, the bus below
\* 800 km and the flight above 100 km, so the mode selected for a leg, for
\* whatever objective, is one that is viable at the leg's distance and the
\* flight fallback is not what selected it
C28_SomeModeViable ==
    /\ \A d \in Distances :
          /\ ViableTypes(d) # {}
          /\ d < 800000 => "bus" \in ViableTypes(d)
          /\ d > 100000 => "flight" \in ViableTypes(d)
    /\ (pc = "done" /\ op = "_select_best_transport") =>
          /\ ViableOptions(request.origin, request.destination,
                           request.distance_km) # <<>>
          /\ result.type \in ViableTypes(request.distance_km)

\* a leg of 100 km, where the flight is not viable, selected for time
C28_Witness ==
    /\ pc = "done" /\ op = "_select_best_transport"
    /\ request.distance_km = 100000
    /\ request.optimize_for = "time"
    /\ result.type # "flight"

-----------------------------------------------------------------------------
(* C25, C26, C29: the stops of a request and the two search regimes *)

\* the positions of cities whose name is neither the start nor the end city
StopPositions == {i \in DOMAIN cities : cities[i] \notin {start_city, RequestEnd}}

\* N, duplicate names counted once per entry
StopCount == Cardinality(StopPositions)

RECURSIVE Factorial(_)
Factorial(n) == IF n = 0 THEN 1 ELSE n * Factorial(n - 1)

\* a call of optimize_multi_city_route returned a ranking
Routed ==
    /\ pc = "done"
    /\ op = "optimize_multi_city_route"
    /\ result.status = "success"

\* C25: with N the number of entries of cities that differ from the start
\* and the end city, N <= 8 builds N! candidates and returns min(5, N!)
\* routes, N > 8 builds one candidate and returns one route
C25_RegimeByStopCount ==
    Routed =>
        IF StopCount <= 8
        THEN /\ Len(all_routes) = Factorial(StopCount)
             /\ Len(result.routes)
                   = (IF Factorial(StopCount) < 5 THEN Factorial(StopCount)
                      ELSE 5)
        ELSE /\ Len(all_routes) = 1
             /\ Len(result.routes) = 1

\* three stops, one name listed twice: six candidates, five routes returned
C25_Witness ==
    /\ Routed
    /\ StopCount = 3
    /\ \E i, j \in StopPositions : i # j /\ cities[i] = cities[j]
    /\ Len(all_routes) = 6
    /\ Len(result.routes) = 5

\* s without the first entry equal to x
RemoveFirst(s, x) ==
    IF \A i \in DOMAIN s : s[i] # x THEN s
    ELSE RemoveAt(s, CHOOSE i \in DOMAIN s :
                         s[i] = x /\ \A j \in 1..(i - 1) : s[j] # x)

\* s without one entry for every entry of visited
RECURSIVE Unvisited(_, _)
Unvisited(s, visited) ==
    IF visited = <<>> THEN s
    ELSE Unvisited(RemoveFirst(s, Head(visited)), Tail(visited))

\* the stops of the heuristic's route in the order it visits them
TourStops ==
    [k \in 1..StopCount |-> all_routes[1].legs[k].destination]

\* C26: the heuristic's route has one leg per stop, and one more to the end
\* city only when it differs from the start city; it visits every stop as
\* often as the list names it; and its k-th stop is the earliest entry, in
\* the order of the list, among the entries not yet visited that are nearest
\* to the city it is at
C26_NearestNeighbourTour ==
    (Routed /\ StopCount > 8) =>
        LET legs == all_routes[1].legs
            stops == List(TourStops)
        IN  /\ Len(legs) = StopCount
                              + (IF RequestEnd # start_city THEN 1 ELSE 0)
            /\ RequestEnd # start_city
                  => legs[Len(legs)].destination = RequestEnd
            /\ \A x \in Names :
                  Count(stops, x) = Count(RequestIntermediates, x)
            /\ \A k \in 1..StopCount :
                  LET current == IF k = 1 THEN start_city ELSE stops[k - 1]
                      rest == Unvisited(RequestIntermediates,
                                        SubSeq(stops, 1, k - 1))
                      first ==
                          CHOOSE i \in DOMAIN rest :
                              /\ \A j \in DOMAIN rest :
                                    _calculate_distance(current, rest[i])
                                        <= _calculate_distance(current, rest[j])
                              /\ \A j \in 1..(i - 1) :
                                    _calculate_distance(current, rest[j])
                                        > _calculate_distance(current, rest[i])
                  IN  /\ Len(rest) = StopCount - k + 1
                      /\ stops[k] = rest[first]

\* a heuristic route whose first stop is not the first entry of the list
C26_Witness ==
    /\ Routed
    /\ StopCount > 8
    /\ all_routes[1].legs[1].destination # RequestIntermediates[1]
    /\ RequestEnd # start_city

\* C29: the routes have one stop for every entry of cities whose name is
\* not exactly the start or the end city; in a returned route the start city
\* is no leg's destination and only the first leg's origin, the end city,
\* when it differs from the start, is no leg's origin and only the last
\* leg's destination; the call leaves cities as it was
C29_EndpointsDropped ==
    /\ [](Routed =>
            \A r \in DOMAIN optimized_routes :
                LET legs == optimized_routes[r].legs
                    n == Len(legs)
                IN  /\ n = StopCount
                              + (IF RequestEnd # start_city THEN 1 ELSE 0)
                    /\ \A k \in 1..n :
                          /\ legs[k].destination # start_city
                          /\ legs[k].origin = start_city <=> k = 1
                          /\ RequestEnd # start_city
                                => /\ legs[k].origin # RequestEnd
                                   /\ legs[k].destination = RequestEnd
                                         <=> k = n)
    /\ [][cities' = cities]_vars

\* a list that names the end city and another spelling of the start city:
\* the first is dropped, the second is a stop
C29_Witness ==
    /\ Routed
    /\ start_city = "boston"
    /\ end_city = "new york"
    /\ \E i, j \in DOMAIN cities :
          cities[i] = "new york" /\ cities[j] = "Boston"
    /\ StopCount = 1
    /\ optimized_routes[1].legs[1].destination = "Boston"

-----------------------------------------------------------------------------
(* C30: what optimize_transport_mix returns *)

\* a call of optimize_transport_mix returned
Mixed == pc = "done" /\ op = "optimize_transport_mix"

\* the flight and bus combination
IsMultiModal(o) == o.type = "multi_modal_flight_bus"

\* the value the options are sorted on for the request's objective
SortedOn(o) ==
    IF request.optimize_for \in {"cost", "time", "carbon"}
    THEN Metric(o, request.optimize_for)
    ELSE Weighted(o)

\* C30: the result is an error exactly when the distance between origin
\* and destination is 0; otherwise it is a success with at least one option,
\* every single-mode option of a catalog mode viable at the distance and
\* every viable mode offered, the flight and bus combination among the
\* options exactly when the distance exceeds 1000 km, and the options
\* ranked 1..k in ascending order of what the objective sorts on
C30_MixResult ==
    Mixed =>
        LET distance_km == _calculate_distance(request.origin,
                                               request.destination)
            k == Len(result.options)
        IN  /\ result.status \in {"success", "error"}
            /\ result.status = "error" <=> distance_km = 0
            /\ result.status = "success" =>
                  /\ k >= 1
                  /\ result.distance_km = distance_km
                  /\ \A i \in 1..k :
                        /\ result.options[i].rank = i
                        /\ IsMultiModal(result.options[i])
                              \/ result.options[i].type
                                    \in ViableTypes(distance_km)
                  /\ \A t \in ViableTypes(distance_km) :
                        \E i \in 1..k : result.options[i].type = t
                  /\ (\E i \in 1..k : IsMultiModal(result.options[i]))
                        <=> distance_km > 1000000
                  /\ \A i \in 1..(k - 1) :
                        SortedOn(result.options[i])
                            <= SortedOn(result.options[i + 1])

\* a journey of more than 500 km and less than 1000 km: the combinations
\* are asked for and none is offered
C30_Witness ==
    /\ Mixed
    /\ result.status = "success"
    /\ result.distance_km > 500000
    /\ result.distance_km < 1000000
    /\ \A i \in DOMAIN result.options : ~IsMultiModal(result.options[i])
    /\ Len(result.options) = 4

=============================================================================
